---------------------------- MODULE Spec2Model ----------------------------
(***************************************************************************)
(* A model of cort's latent structured perceptron: the hashed weight       *)
(* store, the scoring function, the ranking decoders, and the trainer with *)
(* lazy parameter averaging.                                               *)
(*                                                                         *)
(* Two versions of the trainer are in the sources and both are modelled:   *)
(*   impl = "fit"            Perceptron.fit of cort/coreference/           *)
(*                           perceptrons.pyx (epoch loop, counter and      *)
(*                           caches local to fit, averaging in place);     *)
(*   impl = "fit_one_epoch"  Perceptron.fit_one_epoch / get_model of the   *)
(*                           later version (counter and caches are         *)
(*                           attributes, averaging on copies).             *)
(*                                                                         *)
(* Six specifications:                                                     *)
(*   Spec         training, one run;                                       *)
(*   SpecTwice    fit run on two perceptrons, one after the other;         *)
(*   SpecDecode   score_arc, the decoders and load_model on one            *)
(*                substructure;                                            *)
(*   SpecCluster  all_ante on a prediction;                                *)
(*   SpecClusterTwice  all_ante on a prediction and on other predictions;  *)
(*   SpecFeaturize  featurize on a list of (feature, value) pairs.         *)
(*                                                                         *)
(* Numbers are exact rationals <<numerator, denominator>> in lowest terms  *)
(* (the code computes in doubles; rounding is not modelled).  -infinity is *)
(* <<-1, 0>>.  Python's None is the empty tuple.                           *)
(***************************************************************************)
EXTENDS Integers, Sequences, FiniteSets, TLC

VARIABLES
    impl,               \* which trainer drives the run, or "decode"
    decoder,            \* the subclass whose argmax decodes
    n_iter,             \* Perceptron.n_iter
    cost_scaling,       \* Perceptron.cost_scaling
    cluster_features,   \* the cluster feature functions (fit_one_epoch version)
    dynamic_features,   \* the dynamic feature functions (fit_one_epoch version)
    initial_weights,    \* the weights the perceptron under training started from
    substructures,      \* the search space handed to fit / predict
    arc_information,    \* arc -> <<features, costs, consistent>>
    priors,             \* self.priors
    weights,            \* self.weights
    cached_priors,      \* cached_priors
    cached_weights,     \* cached_weights
    counter,            \* the averaging counter
    indices,            \* the (shuffled) list of instance indices
    epoch,              \* epochs (fit) or fit_one_epoch calls started
    pos,                \* instances of the current epoch already processed
    pc,                 \* position of the caller / trainer
    error,              \* the exception that ended the run, or "none"
    decoded,            \* result of the last argmax call, or None
    score_out,          \* result of the last score_arc call, or None
    model,              \* result of the last get_model call, or None
    sum_priors,         \* history: sum of the live priors after each instance
    sum_weights,        \* history: sum of the live weights after each instance
    seed,               \* Perceptron.random_seed
    rng,                \* state of numpy's global random number generator
    generator,          \* the draws of the generator known so far, by its state
    order,              \* history: the instances fit has visited, in order
    first_run,          \* history: start and outcome of an earlier run of fit
    returned,           \* history: <<counter, model>> of each get_model call
    features_and_vals,  \* featurize: the (feature, value) pairs of the features
    mmh3_hash,          \* mmh3.hash on the encoded words that are hashed
    featurized,         \* result of the featurize call, or None
    clusters,           \* result of the last all_ante call, or None
    first_clusters      \* history: result of the first all_ante call

vars == <<impl, decoder, n_iter, cost_scaling, cluster_features,
          dynamic_features, initial_weights, substructures,
          arc_information, priors, weights, cached_priors, cached_weights,
          counter, indices, epoch, pos, pc, error, decoded, score_out, model,
          sum_priors, sum_weights, seed, rng, generator, order, first_run, returned,
          features_and_vals, mmh3_hash, featurized, clusters, first_clusters>>

-----------------------------------------------------------------------------
(* Bounds of the model.                                                    *)

\* length of a weight array (2^24 in the code)
NumIndices == 3
\* number of real mentions of the training document
TrainMentions == 2
\* the anaphor of the substructure decoded in SpecDecode (it has that many
\* candidate antecedents, the dummy included)
DecodeMentions == 3
\* number of real mentions of the document whose decisions are clustered
ClusterMentions == 4
\* largest number of epochs (fit) or fit_one_epoch calls
MaxEpochs == 2
\* largest number of get_model calls of the fit_one_epoch version
MaxCalls == 2
\* bits of a hash value (32 in the code, a signed integer)
HashBits == 3
\* bits of a feature index (24 in the code)
IndexBits == 1
\* largest number of (feature, value) pairs handed to featurize
MaxFeatures == 2

-----------------------------------------------------------------------------
(* Exact arithmetic.                                                       *)

None == <<>>

Abs(n) == IF n < 0 THEN -n ELSE n

RECURSIVE GCD(_, _)
GCD(a, b) == IF b = 0 THEN a ELSE GCD(b, a % b)

Norm(n, d) == LET g == GCD(Abs(n), d) IN <<n \div g, d \div g>>

Rat(n) == <<n, 1>>
NegInf == <<-1, 0>>
Zero == Rat(0)
One == Rat(1)

RatAdd(a, b) == Norm(a[1] * b[2] + b[1] * a[2], a[2] * b[2])
RatNeg(a) == <<-a[1], a[2]>>
RatSub(a, b) == RatAdd(a, RatNeg(b))
RatMul(a, b) == Norm(a[1] * b[1], a[2] * b[2])
\* a / b for b > 0
RatDiv(a, b) == Norm(a[1] * b[2], a[2] * b[1])
\* a > b; every finite number is greater than -infinity
RatGt(a, b) == a[1] * b[2] > b[1] * a[2]
RatGe(a, b) == a[1] * b[2] >= b[1] * a[2]

RECURSIVE SumSeq(_)
SumSeq(s) == IF s = <<>> THEN Zero ELSE RatAdd(s[1], SumSeq(Tail(s)))

Range(s) == {s[k] : k \in 1..Len(s)}

-----------------------------------------------------------------------------
(* Mentions, arcs, labels.                                                 *)

\* Mention 0 is the dummy mention m0; mention j > 0 is the j-th mention in
\* document order.
is_dummy(m) == m = 0

\* The weight arrays are indexed 0 .. NumIndices - 1.
Indices == 0 .. (NumIndices - 1)

\* Perceptron.get_labels
get_labels == <<"+">>

\* self.label_to_index, shifted by one since TLA+ sequences start at 1
label_to_index == [l \in Range(get_labels) |->
                     CHOOSE k \in 1..Len(get_labels) : get_labels[k] = l]

\* anaphor-antecedent distance of an arc
Distance(arc) == arc[1] - arc[2]


-----------------------------------------------------------------------------
(* Arc information, as the feature extraction layer hands it over.         *)

\* The feature representation of an arc: non-numeric feature ids, numeric
\* feature ids, numeric feature values.  Ids are array indices (featurize
\* has hashed them); ids recur within an arc and collide between arcs, and
\* the numeric feature is the anaphor-antecedent distance.
Features(arc) ==
    << << (arc[1] + arc[2]) % NumIndices, arc[2] % NumIndices >>,
       << arc[1] % NumIndices >>,
       << Rat(Distance(arc)) >> >>

\* Mutant: the costs of the two kinds of inconsistent decisions swapped.
Mutant_cost_swapped(arc, consistent) ==
    IF ~consistent /\ is_dummy(arc[2]) THEN 1
    ELSE IF ~consistent THEN 2
    ELSE 0

\* cost_based_on_consistency: 0 for a consistent decision, 2 for an
\* inconsistent one with the dummy as antecedent, 1 otherwise.
cost_based_on_consistency(arc, consistent) ==
    IF ~consistent /\ is_dummy(arc[2]) THEN 2
    ELSE IF ~consistent THEN 1
    ELSE 0

\* arc_information for a set of arcs and their gold-consistency flags; the
\* cost vector holds the cost of each label.
ArcInformation(arcs, consistent) ==
    [arc \in arcs |->
        << Features(arc),
           [k \in 1..Len(get_labels) |->
               Rat(cost_based_on_consistency(arc, consistent[arc]))],
           consistent[arc] >>]

-----------------------------------------------------------------------------
(* Scoring.                                                                *)

\* the first loop of _cython_score_arc / _cython_get_weights
RECURSIVE _cython_get_weights(_, _)
_cython_get_weights(w, features) ==
    IF features = <<>> THEN Zero
    ELSE RatAdd(w[features[1]], _cython_get_weights(w, Tail(features)))

\* Mutant: the numeric features contribute their weight, not weight * value.
Mutant_get_weights_ignoring_vals(w, features, vals) ==
    SumSeq([k \in 1..Len(features) |-> w[features[k]]])

\* the second loop of _cython_score_arc / _cython_get_weights_with_vals
RECURSIVE _cython_get_weights_with_vals(_, _, _)
_cython_get_weights_with_vals(w, features, vals) ==
    IF features = <<>> THEN Zero
    ELSE RatAdd(RatMul(w[features[1]], vals[1]),
                _cython_get_weights_with_vals(w, Tail(features), Tail(vals)))

_cython_score_arc(prior, w, scaling, costs, nonnumeric_features, numeric_features, numeric_vals) ==
    RatAdd(RatAdd(RatAdd(prior, RatMul(scaling, costs)),
                  _cython_get_weights(w, nonnumeric_features)),
           _cython_get_weights_with_vals(w, numeric_features, numeric_vals))

\* Mutant: the cost is taken from the cost vector whatever nocost says.
Mutant_score_arc_cost_always(arc, label, nocost) ==
    LET features == arc_information[arc][1]
        costs == arc_information[arc][2]
        cost == costs[label_to_index[label]]
    IN _cython_score_arc(priors[label], weights[label], cost_scaling, cost,
                         features[1], features[2], features[3])

\* Perceptron.score_arc (nocost is FALSE in the version without it)
score_arc(arc, label, nocost) ==
    LET features == arc_information[arc][1]
        costs == arc_information[arc][2]
        cost == IF nocost THEN Zero ELSE costs[label_to_index[label]]
    IN _cython_score_arc(priors[label], weights[label], cost_scaling, cost,
                         features[1], features[2], features[3])

-----------------------------------------------------------------------------
(* Decoders.                                                               *)

\* Mutant: ">=" for the constrained choice, so the last of equals wins.
Mutant_step_cons_last(acc, arc, score, consistent) ==
    LET new_best == RatGt(score, acc[2])
        new_cons == RatGe(score, acc[4]) /\ consistent
    IN << IF new_best THEN arc ELSE acc[1],
          IF new_best THEN score ELSE acc[2],
          IF new_cons THEN arc ELSE acc[3],
          IF new_cons THEN score ELSE acc[4],
          IF new_best THEN consistent ELSE acc[5] >>

\* Mutant: ">=" for the unconstrained choice, so the last of equals wins.
Mutant_step_best_last(acc, arc, score, consistent) ==
    LET new_best == RatGe(score, acc[2])
        new_cons == RatGt(score, acc[4]) /\ consistent
    IN << IF new_best THEN arc ELSE acc[1],
          IF new_best THEN score ELSE acc[2],
          IF new_cons THEN arc ELSE acc[3],
          IF new_cons THEN score ELSE acc[4],
          IF new_best THEN consistent ELSE acc[5] >>

\* Mutant: ">=" for both choices.
Mutant_step_both_last(acc, arc, score, consistent) ==
    LET new_best == RatGe(score, acc[2])
        new_cons == RatGe(score, acc[4]) /\ consistent
    IN << IF new_best THEN arc ELSE acc[1],
          IF new_best THEN score ELSE acc[2],
          IF new_cons THEN arc ELSE acc[3],
          IF new_cons THEN score ELSE acc[4],
          IF new_best THEN consistent ELSE acc[5] >>

\* Mutant: the constrained choice forgets to test the consistency flag.
Mutant_step_cons_unchecked(acc, arc, score, consistent) ==
    LET new_best == RatGt(score, acc[2])
        new_cons == RatGt(score, acc[4])
    IN << IF new_best THEN arc ELSE acc[1],
          IF new_best THEN score ELSE acc[2],
          IF new_cons THEN arc ELSE acc[3],
          IF new_cons THEN score ELSE acc[4],
          IF new_best THEN consistent ELSE acc[5] >>

\* One pass of the loop body of find_best_arcs; acc is
\* <<best, max_val, best_cons, max_cons, best_is_consistent>>.
find_best_arcs_step(acc, arc, score, consistent) ==
    LET new_best == RatGt(score, acc[2])
        new_cons == RatGt(score, acc[4]) /\ consistent
    IN << IF new_best THEN arc ELSE acc[1],
          IF new_best THEN score ELSE acc[2],
          IF new_cons THEN arc ELSE acc[3],
          IF new_cons THEN score ELSE acc[4],
          IF new_best THEN consistent ELSE acc[5] >>

RECURSIVE find_best_arcs_loop(_, _, _)
find_best_arcs_loop(arcs, label, acc) ==
    IF arcs = <<>> THEN acc
    ELSE find_best_arcs_loop(
             Tail(arcs), label,
             find_best_arcs_step(acc, arcs[1],
                                 score_arc(arcs[1], label, FALSE),
                                 arc_information[arcs[1]][3]))

\* Mutant: the running maxima start at 0 instead of -infinity.
Mutant_find_best_arcs_from_zero(arcs, label) ==
    find_best_arcs_loop(arcs, label, <<None, Zero, None, Zero, FALSE>>)

\* Perceptron.find_best_arcs: <<best, max_val, best_cons, max_cons,
\* best_is_consistent>>
find_best_arcs(arcs, label) ==
    find_best_arcs_loop(arcs, label, <<None, NegInf, None, NegInf, FALSE>>)

\* RankingPerceptron.argmax: <<best_arcs, best_labels, best_scores,
\* best_cons_arcs, best_cons_labels, best_cons_scores, is_consistent>>
RankingPerceptron_argmax(substructure) ==
    LET r == find_best_arcs(substructure, "+")
    IN << <<r[1]>>, <<>>, <<r[2]>>, <<r[3]>>, <<>>, <<r[4]>>, r[5] >>

\* Mutant: the constrained choice is the highest-scoring consistent arc, as
\* in find_best_arcs.
Mutant_closest_step_best_scoring(acc, arc, score, consistent) ==
    LET new_best == RatGt(score, acc[2])
        new_cons == RatGt(score, acc[4]) /\ consistent
    IN << IF new_best THEN arc ELSE acc[1],
          IF new_best THEN score ELSE acc[2],
          IF new_cons THEN arc ELSE acc[3],
          IF new_cons THEN score ELSE acc[4],
          IF new_best THEN consistent ELSE acc[5] >>

\* Mutant: is_consistent tells whether the best arc is the closest
\* consistent one.
Mutant_closest_step_coincide(acc, arc, score, consistent) ==
    LET new_best == RatGt(score, acc[2])
        new_cons == acc[3] = None /\ consistent
    IN << IF new_best THEN arc ELSE acc[1],
          IF new_best THEN score ELSE acc[2],
          IF new_cons THEN arc ELSE acc[3],
          IF new_cons THEN score ELSE acc[4],
          IF new_best THEN (consistent /\ (new_cons \/ acc[3] = arc))
          ELSE acc[5] >>

\* One pass of the loop body of RankingPerceptronClosest.argmax.
closest_step(acc, arc, score, consistent) ==
    LET new_best == RatGt(score, acc[2])
        new_cons == acc[3] = None /\ consistent
    IN << IF new_best THEN arc ELSE acc[1],
          IF new_best THEN score ELSE acc[2],
          IF new_cons THEN arc ELSE acc[3],
          IF new_cons THEN score ELSE acc[4],
          IF new_best THEN consistent ELSE acc[5] >>

RECURSIVE closest_loop(_, _)
closest_loop(arcs, acc) ==
    IF arcs = <<>> THEN acc
    ELSE closest_loop(Tail(arcs),
                      closest_step(acc, arcs[1],
                                   score_arc(arcs[1], "+", FALSE),
                                   arc_information[arcs[1]][3]))

RankingPerceptronClosest_argmax(substructure) ==
    LET r == closest_loop(substructure, <<None, NegInf, None, NegInf, FALSE>>)
    IN << <<r[1]>>, <<>>, <<r[2]>>, <<r[3]>>, <<>>, <<r[4]>>, r[5] >>

Decoders == {"RankingPerceptron", "RankingPerceptronClosest"}

\* self.argmax, dispatched on the subclass
argmax(substructure) ==
    IF decoder = "RankingPerceptron"
    THEN RankingPerceptron_argmax(substructure)
    ELSE RankingPerceptronClosest_argmax(substructure)

\* the fields of a decoder result
best_arcs(d) == d[1]
best_labels(d) == d[2]
best_scores(d) == d[3]
best_cons_arcs(d) == d[4]
best_cons_labels(d) == d[5]
best_cons_scores(d) == d[6]
is_consistent(d) == d[7]

-----------------------------------------------------------------------------
(* The weight update.                                                      *)

\* the first loop of _update_cython on one array
RECURSIVE add_nonnumeric(_, _, _)
add_nonnumeric(a, features, val) ==
    IF features = <<>> THEN a
    ELSE add_nonnumeric([a EXCEPT ![features[1]] = RatAdd(@, val)],
                        Tail(features), val)

\* the second loop of _update_cython on one array
RECURSIVE add_numeric(_, _, _, _)
add_numeric(a, features, vals, val) ==
    IF features = <<>> THEN a
    ELSE add_numeric([a EXCEPT ![features[1]] = RatAdd(@, RatMul(val, vals[1]))],
                     Tail(features), Tail(vals), val)

\* Mutant: the cached array gets the live update value.
Mutant__update_cython_cache_unscaled(w, cw, nonnumeric_features, numeric_features, numeric_vals, update_val_for_weights, update_val_for_cached_weights) ==
    << add_numeric(add_nonnumeric(w, nonnumeric_features, update_val_for_weights),
                   numeric_features, numeric_vals, update_val_for_weights),
       add_numeric(add_nonnumeric(cw, nonnumeric_features, update_val_for_weights),
                   numeric_features, numeric_vals, update_val_for_weights) >>

\* Perceptron._update_cython: the updated <<weights, cached_weights>>
_update_cython(w, cw, nonnumeric_features, numeric_features, numeric_vals, update_val_for_weights, update_val_for_cached_weights) ==
    << add_numeric(add_nonnumeric(w, nonnumeric_features, update_val_for_weights),
                   numeric_features, numeric_vals, update_val_for_weights),
       add_numeric(add_nonnumeric(cw, nonnumeric_features, update_val_for_cached_weights),
                   numeric_features, numeric_vals, update_val_for_cached_weights) >>

\* Mutant: the cache is scaled by the counter after the increment.
Mutant_scaled_by_next_counter(sign, c) == Rat(sign * (c + 1))

\* the update value of the cache: sign * 1.0 * counter
scaled_by_counter(sign, c) == Rat(sign * c)

\* Mutant: an arc without arc information is skipped instead of failing.
Mutant_update_arc_skips_missing(st, arc, label, sign, c, with_priors) ==
    IF arc \notin DOMAIN arc_information
    THEN st
    ELSE LET f == arc_information[arc][1]
             u == _update_cython(st.weights[label], st.cached_weights[label],
                                 f[1], f[2], f[3],
                                 Rat(sign), scaled_by_counter(sign, c))
         IN [st EXCEPT
               !.weights[label] = u[1],
               !.cached_weights[label] = u[2],
               !.priors[label] =
                   IF with_priors THEN RatAdd(@, Rat(sign)) ELSE @,
               !.cached_priors[label] =
                   IF with_priors THEN RatAdd(@, scaled_by_counter(sign, c))
                   ELSE @]

\* Mutant: the priors are touched for the constrained-best arcs only.
Mutant_update_arc_prior_not_decremented(st, arc, label, sign, c, with_priors) ==
    IF arc \notin DOMAIN arc_information
    THEN [st EXCEPT !.err = "KeyError"]
    ELSE LET f == arc_information[arc][1]
             u == _update_cython(st.weights[label], st.cached_weights[label],
                                 f[1], f[2], f[3],
                                 Rat(sign), scaled_by_counter(sign, c))
         IN [st EXCEPT
               !.weights[label] = u[1],
               !.cached_weights[label] = u[2],
               !.priors[label] =
                   IF with_priors /\ sign = 1 THEN RatAdd(@, Rat(sign)) ELSE @,
               !.cached_priors[label] =
                   IF with_priors /\ sign = 1
                   THEN RatAdd(@, scaled_by_counter(sign, c))
                   ELSE @]

\* The model under training:
\* [priors, weights, cached_priors, cached_weights, err].
\* One pass of a loop of __update over zip(arcs, labels); an arc that is no
\* key of arc_information (None) raises KeyError and ends the update with
\* the changes made so far.
update_arc(st, arc, label, sign, c, with_priors) ==
    IF arc \notin DOMAIN arc_information
    THEN [st EXCEPT !.err = "KeyError"]
    ELSE LET f == arc_information[arc][1]
             u == _update_cython(st.weights[label], st.cached_weights[label],
                                 f[1], f[2], f[3],
                                 Rat(sign), scaled_by_counter(sign, c))
         IN [st EXCEPT
               !.weights[label] = u[1],
               !.cached_weights[label] = u[2],
               !.priors[label] =
                   IF with_priors THEN RatAdd(@, Rat(sign)) ELSE @,
               !.cached_priors[label] =
                   IF with_priors THEN RatAdd(@, scaled_by_counter(sign, c))
                   ELSE @]

RECURSIVE update_arcs(_, _, _, _, _, _)
update_arcs(st, arcs, labels, sign, c, with_priors) ==
    IF arcs = <<>> \/ labels = <<>> \/ st.err # "none" THEN st
    ELSE update_arcs(update_arc(st, arcs[1], labels[1], sign, c, with_priors),
                     Tail(arcs), Tail(labels), sign, c, with_priors)

Plus(n) == [k \in 1..n |-> "+"]

\* Perceptron.__update of perceptrons.pyx
__update(st, good_arcs, bad_arcs, good_labels, bad_labels, c) ==
    IF good_labels # <<>> \/ bad_labels # <<>>
    THEN update_arcs(update_arcs(st, good_arcs, good_labels, 1, c, TRUE),
                     bad_arcs, bad_labels, -1, c, TRUE)
    ELSE update_arcs(update_arcs(st, good_arcs, Plus(Len(good_arcs)), 1, c, FALSE),
                     bad_arcs, Plus(Len(bad_arcs)), -1, c, FALSE)

\* the update of __update (fit_one_epoch version) for additional features
update_additional(st, additional_features, label, sign, c) ==
    IF additional_features = <<>> \/ st.err # "none" THEN st
    ELSE LET u == _update_cython(st.weights[label], st.cached_weights[label],
                                 additional_features, <<>>, <<>>,
                                 Rat(sign), scaled_by_counter(sign, c))
         IN [st EXCEPT !.weights[label] = u[1],
                       !.cached_weights[label] = u[2]]

\* Mutant: only the good labels are forced to "+"; the bad arcs keep the
\* (empty) labels of the decoder and are not updated.
Mutant__update_epoch_bad_labels_not_forced(st, good_arcs, bad_arcs, good_labels, bad_labels, good_additional_features, bad_additional_features, c) ==
    LET gl == IF get_labels = <<"+">> THEN Plus(Len(good_arcs) + 1)
              ELSE good_labels
        s1 == update_arcs(st, good_arcs, gl, 1, c, TRUE)
        s2 == update_arcs(s1, bad_arcs, bad_labels, -1, c, TRUE)
        s3 == update_additional(s2, good_additional_features, gl[1], 1, c)
    IN update_additional(s3, bad_additional_features, "+", -1, c)

\* Perceptron.__update of the fit_one_epoch version
__update_epoch(st, good_arcs, bad_arcs, good_labels, bad_labels, good_additional_features, bad_additional_features, c) ==
    LET gl == IF get_labels = <<"+">> THEN Plus(Len(good_arcs) + 1)
              ELSE good_labels
        bl == IF get_labels = <<"+">> THEN Plus(Len(bad_arcs) + 1)
              ELSE bad_labels
        s1 == update_arcs(st, good_arcs, gl, 1, c, TRUE)
        s2 == update_arcs(s1, bad_arcs, bl, -1, c, TRUE)
        s3 == update_additional(s2, good_additional_features, gl[1], 1, c)
    IN update_additional(s3, bad_additional_features, bl[1], -1, c)

\* Mutant: averaging adds the cached share instead of subtracting it.
Mutant_average_adds(w, cw, c) ==
    [i \in DOMAIN w |-> RatAdd(w[i], RatDiv(cw[i], Rat(c)))]

\* Perceptron._average_weights: weights[index] -= cached_weights[index]/counter
_average_weights(w, cw, c) ==
    [i \in DOMAIN w |-> RatSub(w[i], RatDiv(cw[i], Rat(c)))]

\* the averaged prior: priors[label] - (1/counter) * cached_priors[label]
average_prior(p, cp, c) == RatSub(p, RatMul(RatDiv(One, Rat(c)), cp))

\* Mutant: the counter counts the updates only.
Mutant_counter_counts_updates(c, updated) == IF updated THEN c + 1 ELSE c

\* counter += 1, after the update if there was one
next_counter(c, updated) == c + 1

-----------------------------------------------------------------------------
(* The training data.                                                      *)

\* doc.system_mentions: the dummy mention first
system_mentions == [k \in 1..(TrainMentions + 1) |-> k - 1]

\* Mutant: the candidate antecedents are listed in document order, the
\* farthest first.
Mutant_extract_substructures_farthest_first ==
    [k \in 1..Len(system_mentions) |->
        [j \in 1..(k - 1) |-> <<system_mentions[k], system_mentions[j]>>]]

\* extract_substructures: for the i-th mention, the arcs to all mentions
\* before it, in reversed order
extract_substructures ==
    [k \in 1..Len(system_mentions) |->
        [j \in 1..(k - 1) |-> <<system_mentions[k], system_mentions[k - j]>>]]

TrainArcs == UNION {Range(extract_substructures[k]) :
                       k \in 1..Len(extract_substructures)}

\* Feature functions handed to the constructor of the fit_one_epoch version
\* as cluster_features and dynamic_features.  A feature function is given by
\* what featurize makes of it: the hashed id of the word (name=value) it
\* yields for a pair of mentions or of clusters, a non-numeric feature.
feature_of_antecedent == [a \in TrainArcs |-> a[2] % NumIndices]
feature_of_pair == [a \in TrainArcs |-> (a[1] + a[2]) % NumIndices]

\* the pairs <<cluster_features, dynamic_features>> tried: none, one cluster
\* feature, one dynamic feature, one cluster feature and the same dynamic
\* feature twice
FeatureConfigurations ==
    { << <<>>, <<>> >>,
      << <<feature_of_antecedent>>, <<>> >>,
      << <<>>, <<feature_of_pair>> >>,
      << <<feature_of_antecedent>>, <<feature_of_pair, feature_of_pair>> >> }

\* substructure.mentions_to_clusters_mapping: every mention alone in its
\* cluster (no decision has merged clusters)
mentions_to_clusters_mapping(m) == <<m>>

\* featurize(a, b, substructure, feats)[0] + ...[1]: the ids of the features
\* of a pair, one per feature function
hashed_features(pair, feats) == [k \in 1..Len(feats) |-> feats[k][pair]]

\* One pass of the loop of _get_rescored; acc is <<max_antecedent,
\* max_score, the cluster feature ids, the dynamic feature ids of the
\* maximum>>.  The id attribute of a mention is its number.
_get_rescored_step(acc, ana, score, ante, cluster_feats, dynamic_feats) ==
    LET dummy == 0
        ana_cluster == mentions_to_clusters_mapping(ana)
        ante_cluster == mentions_to_clusters_mapping(ante)
        cluster_ids ==
            IF cluster_feats # <<>> /\ ante_cluster # <<dummy>>
               /\ ante_cluster # <<>>
            THEN hashed_features(<<ana_cluster[1], ante_cluster[1]>>,
                                 cluster_feats)
            ELSE <<>>
        cluster_weight == _cython_get_weights(weights["+"], cluster_ids)
        dynamic_ids ==
            IF dynamic_feats # <<>> /\ ~is_dummy(ante)
            THEN hashed_features(<<ana, ante>>, dynamic_feats)
            ELSE <<>>
        dynamic_weight == _cython_get_weights(weights["+"], dynamic_ids)
        rescored == RatAdd(RatAdd(score, cluster_weight), dynamic_weight)
    IN IF \/ RatGt(rescored, acc[2])
          \/ rescored = acc[2] /\ ana - ante < ana - acc[1]
       THEN <<ante, rescored, cluster_ids, dynamic_ids>>
       ELSE acc

RECURSIVE _get_rescored_loop(_, _, _, _, _)
_get_rescored_loop(acc, ana, candidates, cluster_feats, dynamic_feats) ==
    IF candidates = <<>> THEN acc
    ELSE _get_rescored_loop(
             _get_rescored_step(acc, ana, candidates[1][1], candidates[1][2],
                                cluster_feats, dynamic_feats),
             ana, Tail(candidates), cluster_feats, dynamic_feats)

\* The end of _get_rescored, r being <<max_antecedent, max_score, the
\* cluster feature ids, the dynamic feature ids>> after the loop: without a
\* candidate the feature lists are still None and their sum raises
\* TypeError.
_get_rescored_return(ana, r) ==
    IF r[1] = -1
    THEN [err |-> "TypeError", max_score |-> NegInf, arc |-> None,
          features |-> <<>>]
    ELSE [err |-> "none", max_score |-> r[2], arc |-> <<ana, r[1]>>,
          features |-> r[3] \o r[4]]

\* Perceptron._get_rescored for candidates <<score, antecedent>> with finite
\* scores: the highest rescored value, its arc and the ids of its cluster
\* and dynamic features.
_get_rescored(ana, candidates, cluster_feats, dynamic_feats) ==
    _get_rescored_return(
        ana,
        _get_rescored_loop(<<-1, NegInf, None, None>>, ana, candidates,
                           cluster_feats, dynamic_feats))

\* the candidates of a substructure, <<score_arc, antecedent>> per arc in
\* the order of the substructure; with consistent_only, those of the arcs
\* flagged consistent
RECURSIVE scored_candidates(_, _)
scored_candidates(substructure, consistent_only) ==
    IF substructure = <<>> THEN <<>>
    ELSE LET arc == substructure[1]
             rest == scored_candidates(Tail(substructure), consistent_only)
         IN IF consistent_only /\ ~arc_information[arc][3] THEN rest
            ELSE << <<score_arc(arc, "+", FALSE), arc[2]>> >> \o rest

\* The ranking decoder of the fit_one_epoch version.  Its class is not part
\* of the sources at hand; it is the decoder contract (highest-scoring arc,
\* highest-scoring consistent arc, is_consistent when the two coincide, ties
\* to the closer antecedent) over _get_rescored, with the nine values
\* Perceptron.argmax of that version documents.  An error of _get_rescored
\* leaves argmax.
rescoring_decision(best, cons) ==
    IF best.err # "none" THEN [err |-> best.err, result |-> None]
    ELSE IF cons.err # "none" THEN [err |-> cons.err, result |-> None]
    ELSE [err |-> "none",
          result |-> << <<best.arc>>, <<>>, <<best.max_score>>,
                        best.features,
                        <<cons.arc>>, <<>>, <<cons.max_score>>,
                        cons.features,
                        best.arc = cons.arc >>]

\* argmax of that decoder: the unconstrained and the constrained decision
\* of _get_rescored for the anaphor of the substructure
rescoring_argmax(substructure) ==
    LET ana == IF substructure = <<>> THEN 0 ELSE substructure[1][1]
    IN rescoring_decision(
           _get_rescored(ana, scored_candidates(substructure, FALSE),
                         cluster_features, dynamic_features),
           _get_rescored(ana, scored_candidates(substructure, TRUE),
                         cluster_features, dynamic_features))

\* the decoders a perceptron of the fit_one_epoch version is run with
EpochDecoders == Decoders \cup {"rescoring"}

\* self.argmax in fit_one_epoch, dispatched on the subclass: the decoders
\* written for the version with fit return seven values
argmax_epoch(substructure) ==
    IF decoder \in Decoders
    THEN [err |-> "none", result |-> argmax(substructure)]
    ELSE rescoring_argmax(substructure)

\* the tuple unpacking of fit_one_epoch: nine values, or ValueError
unpacked(d) ==
    IF Len(d) # 9
    THEN [err |-> "ValueError"]
    ELSE [err |-> "none",
          arcs |-> d[1],
          arcs_labels |-> d[2],
          arcs_scores |-> d[3],
          pred_additional_features |-> d[4],
          cons_arcs |-> d[5],
          cons_labels |-> d[6],
          cons_scores |-> d[7],
          cons_additional_features |-> d[8],
          is_consistent |-> d[9]]

NonEmpty(s) == s # <<>>

\* The random number generator.  numpy's global generator belongs to a
\* library, not to these sources; what is used of it is that it is a
\* deterministic state machine: numpy.random.seed sets a state that depends
\* on the seed alone, and a draw is a function of the state and advances
\* the state.  A state is <<s, k>>, the state reached k draws after seeding
\* with s; s = -1 stands for the state the interpreter started with.  What
\* the generator draws in a state is not known before it is drawn: any
\* value of the range, and the same value whenever the state is met again.
\* The variable generator records the draws made so far.

\* the seeds tried: the default of the constructor (what the generator
\* draws after seeding is left open, so one seed stands for any)
Seeds == {23}

\* the state of the generator nobody has seeded
Unseeded == <<-1, 0>>

\* numpy.random.seed(seed): the state the seed determines
random_seed(s) == <<s, 0>>

\* one step of the generator
rk_next(state) == <<state[1], state[2] + 1>>

\* the values a draw from 0 .. max can have in a state
rk_interval(state, max) ==
    IF state \in DOMAIN generator THEN {generator[state]} ELSE 0 .. max

\* Mutant: the swap overwrites position i and loses the element it held.
Mutant_swap_overwrites(x, i, j) == [x EXCEPT ![i + 1] = x[j + 1]]

\* x with the elements at (0-based) positions i and j swapped
swap(x, i, j) == [x EXCEPT ![i + 1] = x[j + 1], ![j + 1] = x[i + 1]]

\* the loop of numpy.random.shuffle: for i = n - 1 down to 1, draw j from
\* 0 .. i and swap x[i] and x[j].  The outcomes the draws allow, each
\* <<the shuffled list, the state reached, the draws made by state>>.
RECURSIVE shuffle_loop(_, _, _, _)
shuffle_loop(x, i, state, drawn) ==
    IF i < 1 THEN {<<x, state, drawn>>}
    ELSE UNION {shuffle_loop(swap(x, i, j), i - 1, rk_next(state),
                             drawn @@ (state :> j)) :
                   j \in rk_interval(state, i)}

\* numpy.random.shuffle(x) in generator state `state`
shuffle(x, state) == shuffle_loop(x, Len(x) - 1, state, <<>>)

\* the weights a perceptron with fit is constructed with: none (zeros) or
\* those of a model trained before
WarmWeights ==
    [l \in Range(get_labels) |->
        [i \in Indices |-> IF i = NumIndices - 1 THEN One ELSE Zero]]

\* every ordering of a list (the indices a caller hands to fit_one_epoch)
Permutations_of(s) ==
    {t \in [1..Len(s) -> Range(s)] : \A x \in Range(s) : \E k \in 1..Len(s) : t[k] = x}

ZeroPriors == [l \in Range(get_labels) |-> Zero]
ZeroWeights == [l \in Range(get_labels) |-> [i \in Indices |-> Zero]]

\* the model after construction and the caches as fit / __init__ set them up
Init ==
    /\ impl \in {"fit", "fit_one_epoch"}
    /\ decoder \in IF impl = "fit" THEN Decoders ELSE EpochDecoders
    /\ n_iter \in IF impl = "fit" THEN 0..MaxEpochs ELSE {0}
    /\ cost_scaling = One
    /\ \E configuration \in IF impl = "fit" THEN {<< <<>>, <<>> >>}
                             ELSE FeatureConfigurations :
           /\ cluster_features = configuration[1]
           /\ dynamic_features = configuration[2]
    /\ substructures \in {extract_substructures,
                          SelectSeq(extract_substructures, NonEmpty),
                          <<>>}
    /\ \E consistent \in [TrainArcs -> BOOLEAN] :
           arc_information = ArcInformation(TrainArcs, consistent)
    /\ initial_weights \in IF impl = "fit" THEN {ZeroWeights, WarmWeights}
                            ELSE {ZeroWeights}
    /\ priors = ZeroPriors
    /\ weights = initial_weights
    /\ cached_priors = ZeroPriors
    /\ cached_weights = ZeroWeights
    /\ counter = 0
    /\ indices = [k \in 1..Len(substructures) |-> k - 1]
    /\ epoch = 0
    /\ pos = 0
    /\ pc = IF impl = "fit" THEN "new" ELSE "idle"
    /\ error = "none"
    /\ decoded = None
    /\ score_out = None
    /\ model = None
    /\ sum_priors = ZeroPriors
    /\ sum_weights = ZeroWeights
    /\ seed \in IF impl = "fit" THEN Seeds ELSE {0}
    /\ rng = Unseeded
    /\ generator = <<>>
    /\ order = <<>>
    /\ first_run = None
    /\ returned = <<>>
    /\ features_and_vals = <<>>
    /\ mmh3_hash = <<>>
    /\ featurized = None
    /\ clusters = None
    /\ first_clusters = None

Inputs == <<impl, decoder, n_iter, cost_scaling, cluster_features,
          dynamic_features, initial_weights,
            substructures, arc_information, seed>>

\* what no step of training or decoding touches
ClusterVars == <<clusters, first_clusters>>

\* what only featurize touches
FeaturizeVars == <<features_and_vals, mmh3_hash, featurized>>

\* the model under training, as a record
Live == [priors |-> priors, weights |-> weights,
         cached_priors |-> cached_priors, cached_weights |-> cached_weights,
         err |-> "none"]

AddAll(a, b) == [l \in DOMAIN a |-> [i \in DOMAIN a[l] |-> RatAdd(a[l][i], b[l][i])]]
AddPriors(a, b) == [l \in DOMAIN a |-> RatAdd(a[l], b[l])]

\* The body of the instance loop of fit and fit_one_epoch: decode, update on
\* a mistake, count.  st is the model after the update (or Live).
Instance(d, consistent, st) ==
    /\ decoded' = d
    /\ priors' = st.priors
    /\ weights' = st.weights
    /\ cached_priors' = st.cached_priors
    /\ cached_weights' = st.cached_weights
    /\ IF st.err # "none"
       THEN /\ error' = st.err
            /\ pc' = "error"
            /\ UNCHANGED <<counter, pos, sum_priors, sum_weights, order>>
       ELSE /\ counter' = next_counter(counter, ~consistent)
            /\ pos' = pos + 1
            /\ order' = IF impl = "fit" THEN Append(order, indices[pos + 1])
                        ELSE order
            /\ sum_priors' = AddPriors(sum_priors, st.priors)
            /\ sum_weights' = AddAll(sum_weights, st.weights)
            /\ error' = error
            /\ pc' = IF impl = "fit_one_epoch" /\ pos + 1 = Len(indices)
                     THEN "idle" ELSE pc

\* Mutant: fit does not seed the generator and shuffles with the state the
\* generator happens to be in.
Mutant_FitStart_not_seeded ==
    /\ impl = "fit"
    /\ pc = "new"
    /\ indices' = [k \in 1..Len(substructures) |-> k - 1]
    /\ rng' = rng
    /\ cached_priors' = [l \in DOMAIN priors |-> Zero]
    /\ cached_weights' = [l \in DOMAIN priors |-> [i \in Indices |-> Zero]]
    /\ counter' = 0
    /\ epoch' = 0
    /\ pos' = 0
    /\ pc' = "fit"
    /\ UNCHANGED <<Inputs, priors, weights, generator, error,
                   decoded, score_out, model, sum_priors, sum_weights, order,
                   first_run, returned, ClusterVars, FeaturizeVars>>

\* fit, up to the loop over the epochs: the list of indices, the seeding
\* of the generator with the seed of the perceptron, zeroed caches for
\* every label, the counter
FitStart ==
    /\ impl = "fit"
    /\ pc = "new"
    /\ indices' = [k \in 1..Len(substructures) |-> k - 1]
    /\ rng' = random_seed(seed)
    /\ cached_priors' = [l \in DOMAIN priors |-> Zero]
    /\ cached_weights' = [l \in DOMAIN priors |-> [i \in Indices |-> Zero]]
    /\ counter' = 0
    /\ epoch' = 0
    /\ pos' = 0
    /\ pc' = "fit"
    /\ UNCHANGED <<Inputs, priors, weights, generator, error,
                   decoded, score_out, model, sum_priors, sum_weights, order,
                   first_run, returned, ClusterVars, FeaturizeVars>>

\* fit: the start of an epoch, numpy.random.shuffle(indices)
FitShuffle ==
    /\ pc = "fit"
    /\ epoch < n_iter
    /\ epoch = 0 \/ pos = Len(indices)
    /\ \E shuffled \in shuffle(indices, rng) :
           /\ indices' = shuffled[1]
           /\ rng' = shuffled[2]
           /\ generator' = generator @@ shuffled[3]
    /\ epoch' = epoch + 1
    /\ pos' = 0
    /\ UNCHANGED <<Inputs, priors, weights, cached_priors, cached_weights,
                   counter, pc, error, decoded, score_out, model, sum_priors,
                   sum_weights, order, first_run, returned, ClusterVars,
                   FeaturizeVars>>

\* Mutant: the update is carried out after every decision, whether or not
\* is_consistent holds.
Mutant_FitInstance_always_updates ==
    /\ pc = "fit"
    /\ epoch >= 1
    /\ pos < Len(indices)
    /\ LET d == argmax(substructures[indices[pos + 1] + 1])
           st == __update(Live, best_cons_arcs(d), best_arcs(d),
                          best_cons_labels(d), best_labels(d), counter)
       IN Instance(d, is_consistent(d), st)
    /\ UNCHANGED <<Inputs, indices, epoch, score_out, model, rng, generator,
                   first_run, returned, ClusterVars, FeaturizeVars>>

\* fit: one pass of the loop over the shuffled indices
FitInstance ==
    /\ pc = "fit"
    /\ epoch >= 1
    /\ pos < Len(indices)
    /\ LET d == argmax(substructures[indices[pos + 1] + 1])
           st == IF is_consistent(d) THEN Live
                 ELSE __update(Live, best_cons_arcs(d), best_arcs(d),
                               best_cons_labels(d), best_labels(d), counter)
       IN Instance(d, is_consistent(d), st)
    /\ UNCHANGED <<Inputs, indices, epoch, score_out, model, rng, generator, first_run,
                   returned,
                   ClusterVars,
                   FeaturizeVars>>

\* not a number: the quotient 0.0 / 0.0 of C doubles
NaN == <<0, 0>>

\* Mutant: the weights are averaged before the priors, so the unchecked C
\* division of _average_weights meets the zero counter first.
Mutant_FitAverage_weights_first ==
    /\ pc = "fit"
    /\ epoch = n_iter
    /\ epoch = 0 \/ pos = Len(indices)
    /\ IF counter = 0
       THEN /\ weights' = [l \in DOMAIN priors |-> [i \in Indices |-> NaN]]
            /\ error' = "ZeroDivisionError"
            /\ pc' = "error"
            /\ UNCHANGED priors
       ELSE /\ priors' = [l \in DOMAIN priors |->
                            average_prior(priors[l], cached_priors[l], counter)]
            /\ weights' = [l \in DOMAIN priors |->
                             _average_weights(weights[l], cached_weights[l], counter)]
            /\ pc' = "done"
            /\ error' = error
    /\ UNCHANGED <<Inputs, cached_priors, cached_weights, counter, indices,
                   epoch, pos, decoded, score_out, model, sum_priors,
                   sum_weights, rng, generator, order, first_run, returned, ClusterVars,
                   FeaturizeVars>>

\* fit: the averaging after the last epoch; 1/counter raises
\* ZeroDivisionError for a zero counter before anything is assigned
FitAverage ==
    /\ pc = "fit"
    /\ epoch = n_iter
    /\ epoch = 0 \/ pos = Len(indices)
    /\ IF counter = 0
       THEN /\ error' = "ZeroDivisionError"
            /\ pc' = "error"
            /\ UNCHANGED <<priors, weights>>
       ELSE /\ priors' = [l \in DOMAIN priors |->
                            average_prior(priors[l], cached_priors[l], counter)]
            /\ weights' = [l \in DOMAIN priors |->
                             _average_weights(weights[l], cached_weights[l], counter)]
            /\ pc' = "done"
            /\ error' = error
    /\ UNCHANGED <<Inputs, cached_priors, cached_weights, counter, indices,
                   epoch, pos, decoded, score_out, model, sum_priors,
                   sum_weights, rng, generator, order, first_run, returned, ClusterVars,
                   FeaturizeVars>>

\* a call of fit_one_epoch(substructures, arc_information, indices) with a
\* shuffled list of all instance indices
FitOneEpoch ==
    /\ pc = "idle"
    /\ impl = "fit_one_epoch"
    /\ epoch < MaxEpochs
    /\ indices' \in Permutations_of(indices)
    /\ epoch' = epoch + 1
    /\ pos' = 0
    /\ pc' = IF indices = <<>> THEN "idle" ELSE "train"
    /\ UNCHANGED <<Inputs, priors, weights, cached_priors, cached_weights,
                   counter, error, decoded, score_out, model, sum_priors,
                   sum_weights, rng, generator, order, first_run, returned, ClusterVars,
                   FeaturizeVars>>

\* fit_one_epoch: the loop body after self.argmax has returned r and the
\* unpacking has given u; an error of either leaves the model as it is,
\* otherwise the model is updated on a mistake and the instance counted
fit_one_epoch_body(r, u) ==
    IF u.err # "none"
    THEN Instance(decoded, TRUE, [Live EXCEPT !.err = u.err])
    ELSE Instance(r.result, u.is_consistent,
                  IF u.is_consistent THEN Live
                  ELSE __update_epoch(Live, u.cons_arcs, u.arcs,
                                      u.cons_labels, u.arcs_labels,
                                      u.cons_additional_features,
                                      u.pred_additional_features,
                                      counter))

\* fit_one_epoch: self.argmax and the unpacking of its result
fit_one_epoch_decode(r) ==
    fit_one_epoch_body(r, IF r.err # "none" THEN [err |-> r.err]
                          ELSE unpacked(r.result))

\* fit_one_epoch: one pass of the loop over the indices
EpochInstance ==
    /\ pc = "train"
    /\ pos < Len(indices)
    /\ fit_one_epoch_decode(argmax_epoch(substructures[indices[pos + 1] + 1]))
    /\ UNCHANGED <<Inputs, indices, epoch, score_out, model, rng, generator, first_run,
                   returned,
                   ClusterVars,
                   FeaturizeVars>>

\* Mutant: get_model averages the live priors and weights in place, as the
\* end of fit does, and returns them.
Mutant_GetModel_in_place ==
    /\ \/ impl = "fit" /\ pc = "done"
       \/ impl = "fit_one_epoch" /\ pc = "idle" /\ Len(returned) < MaxCalls
    /\ IF impl = "fit"
       THEN /\ model' = <<priors, weights>>
            /\ UNCHANGED <<pc, error, returned, priors, weights>>
       ELSE IF counter = 0
       THEN /\ error' = "ZeroDivisionError"
            /\ pc' = "error"
            /\ model' = model
            /\ UNCHANGED <<returned, priors, weights>>
       ELSE /\ priors' = [l \in DOMAIN priors |->
                            average_prior(priors[l], cached_priors[l], counter)]
            /\ weights' = [l \in DOMAIN priors |->
                             _average_weights(weights[l], cached_weights[l], counter)]
            /\ model' = <<priors', weights'>>
            /\ returned' = Append(returned, <<counter, model'>>)
            /\ UNCHANGED <<pc, error>>
    /\ UNCHANGED <<Inputs, cached_priors, cached_weights,
                   counter, indices, epoch, pos, decoded, score_out,
                   sum_priors, sum_weights, rng, generator, order, first_run, ClusterVars,
                   FeaturizeVars>>

\* get_model: of perceptrons.pyx after fit (the priors and a copy of the
\* weights), of the fit_one_epoch version between calls (averaged copies;
\* at most MaxCalls calls)
GetModel ==
    /\ \/ impl = "fit" /\ pc = "done"
       \/ impl = "fit_one_epoch" /\ pc = "idle" /\ Len(returned) < MaxCalls
    /\ IF impl = "fit"
       THEN /\ model' = <<priors, weights>>
            /\ UNCHANGED <<pc, error, returned,
                   FeaturizeVars>>
       ELSE IF counter = 0
       THEN /\ error' = "ZeroDivisionError"
            /\ pc' = "error"
            /\ model' = model
            /\ UNCHANGED returned
       ELSE /\ model' =
                 << [l \in DOMAIN priors |->
                       average_prior(priors[l], cached_priors[l], counter)],
                    [l \in DOMAIN priors |->
                       _average_weights(weights[l], cached_weights[l], counter)] >>
            /\ returned' = Append(returned, <<counter, model'>>)
            /\ UNCHANGED <<pc, error>>
    /\ UNCHANGED <<Inputs, priors, weights, cached_priors, cached_weights,
                   counter, indices, epoch, pos, decoded, score_out,
                   sum_priors, sum_weights, rng, generator, order, first_run, ClusterVars,
                   FeaturizeVars>>

Next ==
    \/ FitStart
    \/ FitShuffle
    \/ FitInstance
    \/ FitAverage
    \/ FitOneEpoch
    \/ EpochInstance
    \/ GetModel

Spec == Init /\ [][Next]_vars

-----------------------------------------------------------------------------
(* SpecTwice: two perceptrons constructed one after the other and each     *)
(* trained by fit on the same substructures and arc information, one       *)
(* after the other in one process, so that the second call of fit finds    *)
(* the generator in the state the first one left it in.                    *)

\* The weights argument the constructor of the second perceptron can be
\* called with, by its contents at the call.  The constructor keeps the
\* array it is handed, it does not copy it, and fit writes into that array;
\* so the array object the first perceptron was given holds what the fit
\* of the first has left in it, and only a new array holds the values the
\* first was given.  Zero initial weights stand for weights=None, where
\* each constructor creates an array of zeros of its own.
weights_argument ==
    IF initial_weights = ZeroWeights THEN {ZeroWeights}
    ELSE {weights, initial_weights}

\* The outcome of the first run is put aside and Perceptron.__init__ is
\* called with the seed, epoch count and cost_scaling of the first
\* perceptron, no priors (zeros) and one of the weights arguments above.
NewPerceptron ==
    /\ impl = "fit"
    /\ pc \in {"done", "error"}
    /\ first_run = None
    /\ first_run' = [order |-> order, priors |-> priors, weights |-> weights,
                     error |-> error, initial_weights |-> initial_weights]
    /\ priors' = ZeroPriors
    /\ \E given \in weights_argument :
           /\ weights' = given
           /\ initial_weights' = given
    /\ pc' = "new"
    /\ error' = "none"
    /\ decoded' = None
    /\ model' = None
    /\ sum_priors' = ZeroPriors
    /\ sum_weights' = ZeroWeights
    /\ order' = <<>>
    /\ UNCHANGED <<impl, decoder, n_iter, cost_scaling, cluster_features,
                   dynamic_features, substructures, arc_information, seed,
                   cached_priors, cached_weights, counter, indices,
                   epoch, pos, rng, generator, score_out, returned,
                   ClusterVars, FeaturizeVars>>

\* both perceptrons are of the version whose trainer is fit
InitTwice == Init /\ impl = "fit"

NextTwice ==
    FitStart \/ FitShuffle \/ FitInstance \/ FitAverage \/ NewPerceptron

SpecTwice == InitTwice /\ [][NextTwice]_vars

-----------------------------------------------------------------------------
(* SpecDecode: the pure functions applied to bounded inputs.  One          *)
(* substructure of an anaphor up to DecodeMentions, its candidates in any  *)
(* order, any gold-consistency flags, small weights, priors and scalings.  *)

\* the candidate arcs of an anaphor: one per mention before it
ArcsOf(ana) == {<<ana, ante>> : ante \in 0 .. (ana - 1)}

DecodeArcs == ArcsOf(DecodeMentions)

\* every list of distinct arcs, the empty list included
ArcLists(arcs) ==
    {s \in UNION {[1..n -> arcs] : n \in 0..Cardinality(arcs)} :
        \A j, k \in 1..Len(s) : j # k => s[j] # s[k]}

SmallWeights == {Rat(0), Rat(1)}

\* weight arrays with at most one non-zero entry
SparseWeights ==
    {w \in [Indices -> SmallWeights] :
        Cardinality({i \in Indices : w[i] # Zero}) <= 1}

InitDecode ==
    /\ impl = "decode"
    /\ decoder \in Decoders
    /\ n_iter = 0
    /\ cost_scaling \in {Rat(0), Rat(1)}
    /\ cluster_features = <<>>
    /\ dynamic_features = <<>>
    /\ initial_weights = ZeroWeights
    /\ \E ana \in 1..DecodeMentions :
           /\ \E s \in ArcLists(ArcsOf(ana)) : substructures = <<s>>
           /\ \E consistent \in [ArcsOf(ana) -> BOOLEAN] :
                  arc_information = ArcInformation(ArcsOf(ana), consistent)
    /\ priors \in [Range(get_labels) -> SmallWeights]
    /\ weights \in [Range(get_labels) -> SparseWeights]
    /\ cached_priors = [l \in Range(get_labels) |-> Zero]
    /\ cached_weights = [l \in Range(get_labels) |-> [i \in Indices |-> Zero]]
    /\ counter = 0
    /\ indices = <<>>
    /\ epoch = 0
    /\ pos = 0
    /\ pc = "predict"
    /\ error = "none"
    /\ decoded = None
    /\ score_out = None
    /\ model = None
    /\ sum_priors = [l \in Range(get_labels) |-> Zero]
    /\ sum_weights = [l \in Range(get_labels) |-> [i \in Indices |-> Zero]]
    /\ seed = 0
    /\ rng = Unseeded
    /\ generator = <<>>
    /\ order = <<>>
    /\ first_run = None
    /\ returned = <<>>
    /\ features_and_vals = <<>>
    /\ mmh3_hash = <<>>
    /\ featurized = None
    /\ clusters = None
    /\ first_clusters = None

\* One pass of the loop of Perceptron.predict: decode a substructure.
Predict ==
    /\ pc = "predict"
    /\ decoded = None
    /\ score_out = None
    /\ decoded' = argmax(substructures[1])
    /\ UNCHANGED <<impl, decoder, n_iter, cost_scaling, cluster_features,
          dynamic_features, initial_weights,
                   substructures, arc_information, priors, weights,
                   cached_priors, cached_weights, counter, indices, epoch, pos,
                   pc, error, score_out, model, sum_priors, sum_weights,
                   seed, rng, generator, order, first_run, returned, ClusterVars,
                   FeaturizeVars>>

\* A call of score_arc(arc, arc_information, label, nocost); score_out is
\* <<arc, label, the score returned, nocost>>.
ScoreArc ==
    /\ pc = "predict"
    /\ decoded = None
    /\ score_out = None
    /\ \E arc \in DOMAIN arc_information, label \in Range(get_labels),
          nocost \in BOOLEAN :
           score_out' = <<arc, label, score_arc(arc, label, nocost), nocost>>
    /\ UNCHANGED <<impl, decoder, n_iter, cost_scaling, cluster_features,
          dynamic_features, initial_weights,
                   substructures, arc_information, priors, weights,
                   cached_priors, cached_weights, counter, indices, epoch, pos,
                   pc, error, decoded, model, sum_priors, sum_weights,
                   seed, rng, generator, order, first_run, returned, ClusterVars,
                   FeaturizeVars>>

\* The models handed to load_model: one that fits the configured label
\* set and array length, one whose weight array is one entry short, one
\* for a label the perceptron does not have, one without weights for its
\* label.
LoadableModels ==
    { << [l \in {"+"} |-> One], [l \in {"+"} |-> [i \in Indices |-> One]] >>,
      << [l \in {"+"} |-> One],
         [l \in {"+"} |-> [i \in 0 .. (NumIndices - 2) |-> One]] >>,
      << [l \in {"-"} |-> One], [l \in {"-"} |-> [i \in Indices |-> One]] >>,
      << [l \in {"+"} |-> One], <<>> >> }

\* Perceptron.load_model: self.priors is replaced, then the weights of each
\* label of the new priors are taken over, a label without weights raising
\* KeyError; nothing is compared with get_labels or the array length.  (The
\* models tried have one label, so no weights are taken over before the
\* KeyError.)
LoadModel ==
    /\ pc = "predict"
    /\ decoded = None
    /\ score_out = None
    /\ \E m \in LoadableModels :
          /\ model' = m
          /\ priors' = m[1]
          /\ IF \E l \in DOMAIN m[1] : l \notin DOMAIN m[2]
             THEN /\ error' = "KeyError"
                  /\ weights' = weights
             ELSE /\ error' = error
                  /\ weights' = [l \in DOMAIN weights \cup DOMAIN m[1] |->
                                   IF l \in DOMAIN m[1] THEN m[2][l]
                                   ELSE weights[l]]
    /\ pc' = "loaded"
    /\ UNCHANGED <<impl, decoder, n_iter, cost_scaling, cluster_features,
          dynamic_features, initial_weights,
                   substructures, arc_information, cached_priors,
                   cached_weights, counter, indices, epoch, pos, decoded,
                   score_out, sum_priors, sum_weights, seed, rng, generator, order,
                   first_run, returned, ClusterVars,
                   FeaturizeVars>>

NextDecode == Predict \/ ScoreArc \/ LoadModel

SpecDecode == InitDecode /\ [][NextDecode]_vars

-----------------------------------------------------------------------------
(* SpecCluster: all_ante applied to predicted arcs.  The document has the  *)
(* mentions m1 .. m_ClusterMentions after the dummy; the prediction is a   *)
(* list of at most DecodeMentions substructures of one decision each, in   *)
(* any order, a decision being a candidate arc (an anaphor and the dummy   *)
(* mention or a mention before it), or None (what the decoders return for  *)
(* an empty search space).                                                 *)

\* antecedent.document.system_mentions: the dummy mention first
document_system_mentions == [k \in 1..(ClusterMentions + 1) |-> k - 1]

\* list.index
index(list, x) == (CHOOSE k \in 1..Len(list) : list[k] = x) - 1

\* d[k] = v on a dict
Put(d, k, v) == [x \in DOMAIN d \cup {k} |-> IF x = k THEN v ELSE d[x]]

\* Mutant: the anaphor gets the position of its antecedent as its id,
\* whatever id the antecedent has.
Mutant_all_ante_pair_id_of_antecedent_position(st, pair) ==
    IF st.err # "none" THEN st
    ELSE IF pair = None THEN [st EXCEPT !.err = "TypeError"]
    ELSE IF is_dummy(pair[2]) THEN st
    ELSE LET anaphor == pair[1]
             antecedent == pair[2]
             m1 == IF antecedent \notin DOMAIN st.mention_entity_mapping
                   THEN Put(st.mention_entity_mapping, antecedent,
                            index(document_system_mentions, antecedent))
                   ELSE st.mention_entity_mapping
         IN [st EXCEPT
               !.antecedent_mapping = Put(@, anaphor, antecedent),
               !.mention_entity_mapping =
                   Put(m1, anaphor, index(document_system_mentions, antecedent))]

\* Mutant: the test for an id looks at the anaphor instead of the
\* antecedent (the lookup of an antecedent without id then raises KeyError).
Mutant_all_ante_pair_checks_anaphor(st, pair) ==
    IF st.err # "none" THEN st
    ELSE IF pair = None THEN [st EXCEPT !.err = "TypeError"]
    ELSE IF is_dummy(pair[2]) THEN st
    ELSE IF pair[1] \in DOMAIN st.mention_entity_mapping
            /\ pair[2] \notin DOMAIN st.mention_entity_mapping
    THEN [st EXCEPT !.err = "KeyError"]
    ELSE LET anaphor == pair[1]
             antecedent == pair[2]
             m1 == IF anaphor \notin DOMAIN st.mention_entity_mapping
                   THEN Put(st.mention_entity_mapping, antecedent,
                            index(document_system_mentions, antecedent))
                   ELSE st.mention_entity_mapping
         IN [st EXCEPT
               !.antecedent_mapping = Put(@, anaphor, antecedent),
               !.mention_entity_mapping = Put(m1, anaphor, m1[antecedent])]

\* Mutant: the antecedent starts a new chain whether or not it has an id.
Mutant_all_ante_pair_always_new_chain(st, pair) ==
    IF st.err # "none" THEN st
    ELSE IF pair = None THEN [st EXCEPT !.err = "TypeError"]
    ELSE IF is_dummy(pair[2]) THEN st
    ELSE LET anaphor == pair[1]
             antecedent == pair[2]
             m1 == Put(st.mention_entity_mapping, antecedent,
                       index(document_system_mentions, antecedent))
         IN [st EXCEPT
               !.antecedent_mapping = Put(@, anaphor, antecedent),
               !.mention_entity_mapping = Put(m1, anaphor, m1[antecedent])]

\* The body of the inner loop of all_ante; st is [mention_entity_mapping,
\* antecedent_mapping, err].  Unpacking None raises TypeError.
all_ante_pair(st, pair) ==
    IF st.err # "none" THEN st
    ELSE IF pair = None THEN [st EXCEPT !.err = "TypeError"]
    ELSE IF is_dummy(pair[2]) THEN st
    ELSE LET anaphor == pair[1]
             antecedent == pair[2]
             m1 == IF antecedent \notin DOMAIN st.mention_entity_mapping
                   THEN Put(st.mention_entity_mapping, antecedent,
                            index(document_system_mentions, antecedent))
                   ELSE st.mention_entity_mapping
         IN [st EXCEPT
               !.antecedent_mapping = Put(@, anaphor, antecedent),
               !.mention_entity_mapping = Put(m1, anaphor, m1[antecedent])]

\* for pair in substructure
RECURSIVE all_ante_substructure(_, _)
all_ante_substructure(st, substructure) ==
    IF substructure = <<>> THEN st
    ELSE all_ante_substructure(all_ante_pair(st, substructure[1]),
                               Tail(substructure))

\* for substructure in substructures
RECURSIVE all_ante_loop(_, _)
all_ante_loop(st, subs) ==
    IF subs = <<>> THEN st
    ELSE all_ante_loop(all_ante_substructure(st, subs[1]), Tail(subs))

\* what all_ante returns of the state its loops have reached; an exception
\* leaves no result.  substructures is the argument as the call leaves it.
all_ante_return(st, subs) ==
    IF st.err # "none"
    THEN [mention_entity_mapping |-> <<>>, antecedent_mapping |-> <<>>,
          err |-> st.err, substructures |-> subs]
    ELSE [mention_entity_mapping |-> st.mention_entity_mapping,
          antecedent_mapping |-> st.antecedent_mapping,
          err |-> "none", substructures |-> subs]

\* Mutant: the two dicts are created once, not in every call, and a call
\* goes on with what the call before it has left in them.
Mutant_all_ante_keeps_dicts(subs) ==
    all_ante_return(
        all_ante_loop([mention_entity_mapping |->
                           IF clusters = None THEN <<>>
                           ELSE clusters.mention_entity_mapping,
                       antecedent_mapping |->
                           IF clusters = None THEN <<>>
                           ELSE clusters.antecedent_mapping,
                       err |-> "none"], subs),
        subs)

\* all_ante: two new, empty dicts, the loops over the pairs of the
\* substructures, which only read the argument, and the two dicts returned
all_ante(subs) ==
    all_ante_return(
        all_ante_loop([mention_entity_mapping |-> <<>>,
                       antecedent_mapping |-> <<>>,
                       err |-> "none"], subs),
        subs)

\* the decisions a prediction may hold: the candidate arcs of the search
\* space, an anaphor with the dummy mention or a mention before it
Decisions ==
    {d \in (1..ClusterMentions) \X (0..ClusterMentions) : d[2] < d[1]}

\* the predictions: at most DecodeMentions substructures of one decision
Predictions ==
    UNION {[1..n -> {<<d>> : d \in Decisions \cup {None}}] :
              n \in 0..DecodeMentions}

InitCluster ==
    /\ impl = "cluster"
    /\ decoder = "RankingPerceptron"
    /\ n_iter = 0
    /\ cost_scaling = One
    /\ cluster_features = <<>>
    /\ dynamic_features = <<>>
    /\ initial_weights = ZeroWeights
    /\ substructures \in Predictions
    /\ arc_information = <<>>
    /\ priors = ZeroPriors
    /\ weights = ZeroWeights
    /\ cached_priors = ZeroPriors
    /\ cached_weights = ZeroWeights
    /\ counter = 0
    /\ indices = <<>>
    /\ epoch = 0
    /\ pos = 0
    /\ pc = "cluster"
    /\ error = "none"
    /\ decoded = None
    /\ score_out = None
    /\ model = None
    /\ sum_priors = ZeroPriors
    /\ sum_weights = ZeroWeights
    /\ seed = 0
    /\ rng = Unseeded
    /\ generator = <<>>
    /\ order = <<>>
    /\ first_run = None
    /\ returned = <<>>
    /\ features_and_vals = <<>>
    /\ mmh3_hash = <<>>
    /\ featurized = None
    /\ clusters = None
    /\ first_clusters = None

\* A call of all_ante on the prediction (at most two calls); the result of
\* the first call is put aside.  pc tells the calls made: none ("cluster"),
\* one on the prediction ("once"), then one on another prediction
\* ("other"), and a second one on the prediction ("twice", or
\* "twice_after_other").
AllAnte ==
    /\ pc \in {"cluster", "once", "other"}
    /\ clusters' = all_ante(substructures)
    /\ substructures' = all_ante(substructures).substructures
    /\ first_clusters' = IF pc = "once" THEN clusters ELSE first_clusters
    /\ pc' = IF pc = "cluster" THEN "once"
             ELSE IF pc = "once" THEN "twice" ELSE "twice_after_other"
    /\ UNCHANGED <<impl, decoder, n_iter, cost_scaling, cluster_features,
                   dynamic_features, initial_weights, arc_information, seed,
                   priors, weights, cached_priors, cached_weights,
                   counter, indices, epoch, pos, error, decoded, score_out,
                   model, sum_priors, sum_weights, rng, generator, order,
                   first_run, returned, FeaturizeVars>>

NextCluster == AllAnte

SpecCluster == InitCluster /\ [][NextCluster]_vars

\* the predictions of other calls: one decision for the last mention
OtherPredictions ==
    {<< <<d>> >> : d \in {e \in Decisions : e[1] = ClusterMentions}}

\* A call of all_ante on another prediction, between the two calls on the
\* prediction.
AllAnteOther ==
    /\ pc = "once"
    /\ \E other \in OtherPredictions \ {substructures} :
           clusters' = all_ante(other)
    /\ first_clusters' = clusters
    /\ pc' = "other"
    /\ UNCHANGED <<Inputs, priors, weights, cached_priors, cached_weights,
                   counter, indices, epoch, pos, error, decoded, score_out,
                   model, sum_priors, sum_weights, rng, generator, order,
                   first_run, returned, FeaturizeVars>>

NextClusterTwice == AllAnte \/ AllAnteOther

\* SpecClusterTwice: as SpecCluster, with calls of all_ante on other
\* predictions between the calls on the prediction
SpecClusterTwice == InitCluster /\ [][NextClusterTwice]_vars

-----------------------------------------------------------------------------
(* SpecFeaturize: featurize applied to the (feature, value) pairs the      *)
(* feature functions return.  A value is None, a number (type name "int")  *)
(* or a bool; mmh3.hash is any function from the encoded words to the      *)
(* signed integers of HashBits bits.                                       *)

\* 2 ** n
RECURSIVE Pow2(_)
Pow2(n) == IF n = 0 THEN 1 ELSE 2 * Pow2(n - 1)

\* the values of mmh3.hash: the signed integers of HashBits bits
SignedHashes == (0 - Pow2(HashBits - 1)) .. (Pow2(HashBits - 1) - 1)

\* a & b on Python integers (two's complement of unbounded width), b >= 0
RECURSIVE BitAnd(_, _)
BitAnd(a, b) ==
    IF b = 0 THEN 0
    ELSE (a % 2) * (b % 2) + 2 * BitAnd(a \div 2, b \div 2)

\* Mutant: the mask is applied before the subtraction, (h & 2 ** 24) - 1.
Mutant_hash_index_mask_then_subtract(h) == BitAnd(h, Pow2(IndexBits)) - 1

\* mmh3.hash(...) & 2 ** 24 - 1: the subtraction binds tighter than &
hash_index(h) == BitAnd(h, Pow2(IndexBits) - 1)

numeric_types == {"float", "int"}

\* type(val).__name__
type_name(val) == val[1]

\* unicode / str of a value that is not numeric
convert_to_string_function(val) ==
    IF type_name(val) = "bool" THEN (IF val[2] THEN "True" ELSE "False")
    ELSE val[2]

\* the tests of the loop over features_and_vals
is_numeric(p) == p[2] # None /\ type_name(p[2]) \in numeric_types
is_non_numeric(p) == p[2] # None /\ type_name(p[2]) \notin numeric_types

\* feature + "=" + convert_to_string_function(val), as the list of its parts
non_numeric_feat(p) == <<p[1], "=", convert_to_string_function(p[2])>>

\* the name of a numeric feature, as a word of one part
numeric_feat(p) == <<p[1]>>

\* the words featurize hashes for a list of (feature, value) pairs
Words(fv) ==
    {non_numeric_feat(fv[k]) : k \in {j \in 1..Len(fv) : is_non_numeric(fv[j])}}
    \cup {numeric_feat(fv[k]) : k \in {j \in 1..Len(fv) : is_numeric(fv[j])}}

\* array.array('I', list) raises OverflowError for a value outside the
\* range of the unsigned C ints of HashBits bits
fits_array_I(list) ==
    \A k \in 1..Len(list) : list[k] \in 0..(Pow2(HashBits) - 1)

\* featurize, after the feature functions have been applied: the hashed
\* non-numeric features, the hashed numeric features and the values of the
\* latter as C floats (the values tried are exact as such)
featurize(fv, hash) ==
    LET non == SelectSeq(fv, is_non_numeric)
        num == SelectSeq(fv, is_numeric)
        non_numeric_feats == [k \in 1..Len(non) |-> non_numeric_feat(non[k])]
        numeric_feats == [k \in 1..Len(num) |-> numeric_feat(num[k])]
        numeric_vals == [k \in 1..Len(num) |-> num[k][2][2]]
        all_nonnumeric_feats ==
            [k \in 1..Len(non) |-> hash_index(hash[non_numeric_feats[k]])]
        all_numeric_feats ==
            [k \in 1..Len(num) |-> hash_index(hash[numeric_feats[k]])]
        all_numeric_vals == [k \in 1..Len(num) |-> Rat(numeric_vals[k])]
    IN IF fits_array_I(all_nonnumeric_feats) /\ fits_array_I(all_numeric_feats)
       THEN [all_nonnumeric_feats |-> all_nonnumeric_feats,
             all_numeric_feats |-> all_numeric_feats,
             all_numeric_vals |-> all_numeric_vals, err |-> "none"]
       ELSE [all_nonnumeric_feats |-> <<>>, all_numeric_feats |-> <<>>,
             all_numeric_vals |-> <<>>, err |-> "OverflowError"]

\* the names and values the feature functions return
FeatureNames == {"f", "g"}
FeatureVals == {None, <<"int", 1>>, <<"int", 2>>, <<"bool", TRUE>>}

\* the lists of at most MaxFeatures (feature, value) pairs
FeatureLists ==
    UNION {[1..n -> FeatureNames \X FeatureVals] : n \in 0..MaxFeatures}

InitFeaturize ==
    /\ impl = "featurize"
    /\ decoder = "RankingPerceptron"
    /\ n_iter = 0
    /\ cost_scaling = One
    /\ cluster_features = <<>>
    /\ dynamic_features = <<>>
    /\ initial_weights = ZeroWeights
    /\ substructures = <<>>
    /\ arc_information = <<>>
    /\ priors = ZeroPriors
    /\ weights = ZeroWeights
    /\ cached_priors = ZeroPriors
    /\ cached_weights = ZeroWeights
    /\ counter = 0
    /\ indices = <<>>
    /\ epoch = 0
    /\ pos = 0
    /\ pc = "featurize"
    /\ error = "none"
    /\ decoded = None
    /\ score_out = None
    /\ model = None
    /\ sum_priors = ZeroPriors
    /\ sum_weights = ZeroWeights
    /\ seed = 0
    /\ rng = Unseeded
    /\ generator = <<>>
    /\ order = <<>>
    /\ first_run = None
    /\ returned = <<>>
    /\ features_and_vals \in FeatureLists
    /\ mmh3_hash \in [Words(features_and_vals) -> SignedHashes]
    /\ featurized = None
    /\ clusters = None
    /\ first_clusters = None

\* A call of featurize.
Featurize ==
    /\ pc = "featurize"
    /\ featurized = None
    /\ featurized' = featurize(features_and_vals, mmh3_hash)
    /\ UNCHANGED <<Inputs, priors, weights, cached_priors, cached_weights,
                   counter, indices, epoch, pos, pc, error, decoded, score_out,
                   model, sum_priors, sum_weights, rng, generator, order, first_run,
                   returned, features_and_vals, mmh3_hash, ClusterVars>>

NextFeaturize == Featurize

SpecFeaturize == InitFeaturize /\ [][NextFeaturize]_vars

-----------------------------------------------------------------------------
(* Vocabulary of the claims.                                               *)

\* number of occurrences of index i among the non-numeric ids of a feature
\* representation, plus the values of the numeric occurrences of i
Occurrences(features, i) ==
    RatAdd(Rat(Cardinality({k \in 1..Len(features[1]) : features[1][k] = i})),
           SumSeq([k \in 1..Len(features[2]) |->
                      IF features[2][k] = i THEN features[3][k] ELSE Zero]))

\* sum over all indices of w[i] * (occurrences of i in features)
WeightedFeatureSum(w, features) ==
    SumSeq([k \in 1..NumIndices |->
               RatMul(w[k - 1], Occurrences(features, k - 1))])

\* the cost-augmented score of an arc of the decoded substructure
Score(arc) == score_arc(arc, "+", FALSE)

Consistent(arc) == arc_information[arc][3]

\* the substructure that was decoded
Decoded == impl = "decode" /\ decoded # None
Substructure == substructures[1]
Best == best_arcs(decoded)[1]
BestCons == best_cons_arcs(decoded)[1]

\* position of an arc in the substructure
PositionOf(arc) == CHOOSE k \in 1..Len(Substructure) : Substructure[k] = arc

\* the candidates are listed closest antecedent first
ClosestFirst(s) ==
    \A j, k \in 1..Len(s) : j < k => Distance(s[j]) < Distance(s[k])

-----------------------------------------------------------------------------
(* Vocabulary of the training claims.                                      *)

\* instances processed so far: every epoch (every call) goes through all
\* indices
Processed == IF epoch = 0 THEN 0 ELSE (epoch - 1) * Len(indices) + pos

\* a step that has processed an instance to the end
InstanceProcessed == pos' = pos + 1

\* a processed instance whose decoding was not consistent: the update ran
\* the seven values of the decoder contract in the result of an argmax call
\* (the fit_one_epoch version returns nine, the additional features of the
\* two decisions among them)
Seven(d) ==
    IF Len(d) = 9 THEN <<d[1], d[2], d[3], d[5], d[6], d[7], d[9]>> ELSE d

\* the additional features of the best and of the constrained-best decision
PredAdditional(d) == IF Len(d) = 9 THEN d[4] ELSE <<>>
ConsAdditional(d) == IF Len(d) = 9 THEN d[8] ELSE <<>>

MistakeUpdated == InstanceProcessed /\ ~is_consistent(Seven(decoded'))

\* occurrences of index i in the features of a list of arcs
RECURSIVE ArcOccurrences(_, _)
ArcOccurrences(arcs, i) ==
    IF arcs = <<>> THEN Zero
    ELSE RatAdd(IF arcs[1] \in DOMAIN arc_information
                THEN Occurrences(arc_information[arcs[1]][1], i) ELSE Zero,
                ArcOccurrences(Tail(arcs), i))

\* occurrences of index i among the additional features of a decision
AdditionalOccurrences(additional_features, i) ==
    Rat(Cardinality({k \in 1..Len(additional_features) :
                        additional_features[k] = i}))

\* the arrays of label l changed by delta (live) and c * delta (cached)
ChangedBy(l, i, delta, c) ==
    /\ weights'[l][i] = RatAdd(weights[l][i], delta)
    /\ cached_weights'[l][i] = RatAdd(cached_weights[l][i], RatMul(Rat(c), delta))

\* a step that hands an averaged model to the caller: the end of fit, or a
\* get_model call of the fit_one_epoch version
Averaged ==
    \/ pc = "fit" /\ pc' = "done"
    \/ impl = "fit_one_epoch" /\ model' # model

\* the model handed over by that step, <<priors, weights>>
Handed == IF impl = "fit" THEN <<priors', weights'>> ELSE model'

-----------------------------------------------------------------------------
\* C1 as stated: when an instance is decoded with is_consistent = false at
\* counter value c (and the update is carried out), every index of the live
\* weights of "+" changes by the occurrences of the index in the
\* constrained-best arcs minus those in the unconstrained-best arcs, the
\* cached weights by c times that, and nothing else changes.
C1_Original ==
    [][MistakeUpdated =>
         \A i \in Indices :
            ChangedBy("+", i,
                      RatSub(ArcOccurrences(best_cons_arcs(Seven(decoded')), i),
                             ArcOccurrences(best_arcs(Seven(decoded')), i)),
                      counter)]_vars

\* C1 amended: the change of index i is the occurrences of i in the features
\* of the constrained-best arcs and among the additional features of the
\* constrained-best decision, minus the same for the unconstrained-best; the
\* cached change is c times that; no other index changes.  (fit has no
\* additional features.)
C1_UpdateDelta ==
    [][MistakeUpdated =>
         \A i \in Indices :
            ChangedBy("+", i,
                      RatSub(RatAdd(ArcOccurrences(best_cons_arcs(Seven(decoded')), i),
                                    AdditionalOccurrences(ConsAdditional(decoded'), i)),
                             RatAdd(ArcOccurrences(best_arcs(Seven(decoded')), i),
                                    AdditionalOccurrences(PredAdditional(decoded'), i))),
                      counter)]_vars

\* an update at a counter value of at least 2 in which the two decisions
\* differ in their additional features
C1_Witness ==
    /\ impl = "fit_one_epoch"
    /\ decoded # None /\ ~is_consistent(Seven(decoded)) /\ error = "none"
    /\ counter >= 2
    /\ ConsAdditional(decoded) # PredAdditional(decoded)
    /\ \E i \in Indices : cached_weights["+"][i] # Zero

\* C2: the averaged weight w handed over after T >= 1 instances satisfies
\* T * w = the sum of the live weights right after each instance, for every
\* label and index, and likewise for the priors.
C2_AverageOfSnapshots ==
    [][Averaged =>
         /\ Processed >= 1
         /\ \A l \in Range(get_labels) :
               /\ RatMul(Rat(Processed), Handed[1][l]) = sum_priors[l]
               /\ \A i \in Indices :
                     RatMul(Rat(Processed), Handed[2][l][i]) = sum_weights[l][i]]_vars

\* fit ended after four or more instances with a weight that is no integer
C2_Witness ==
    /\ pc = "done"
    /\ counter >= 4
    /\ \E i \in Indices : weights["+"][i][2] # 1

\* C3: the model handed over has weight = live_weight - cached_weight /
\* counter and prior = live_prior - cached_prior / counter, the counter
\* being the number of instances processed in the whole run.
C3_AveragedModel ==
    [][Averaged =>
         /\ counter = Processed
         /\ \A l \in Range(get_labels) :
               /\ Handed[1][l] =
                     RatSub(priors[l], RatDiv(cached_priors[l], Rat(counter)))
               /\ \A i \in Indices :
                     Handed[2][l][i] =
                        RatSub(weights[l][i],
                               RatDiv(cached_weights[l][i], Rat(counter)))]_vars

\* get_model of the fit_one_epoch version after two epochs, some instance of
\* which caused no update, some cached weight being non-zero
C3_Witness ==
    /\ impl = "fit_one_epoch"
    /\ model # None
    /\ epoch = 2 /\ pc = "idle"
    /\ is_consistent(Seven(decoded))
    /\ \E i \in Indices : cached_weights["+"][i] # Zero /\ model[2]["+"][i] # weights["+"][i]

\* C4: the counter starts at 0, every processed instance increments it by
\* exactly 1 whether or not it caused an update, and no step decreases or
\* resets it: it always equals the number of instances processed so far.
C4_CounterCountsInstances ==
    /\ counter = 0
    /\ [][/\ counter' = counter \/ counter' = counter + 1
          /\ InstanceProcessed => counter' = counter + 1]_vars
    /\ [](counter = Processed)

\* in the second epoch, after an instance that caused no update
C4_Witness ==
    /\ epoch = 2
    /\ pos >= 1
    /\ counter = Len(indices) + pos
    /\ is_consistent(Seven(decoded))

-----------------------------------------------------------------------------
\* C5: score_arc returns prior[label] + cost_scaling * cost[arc][index of
\* label] + the sum of weight[label][f] over the non-numeric feature ids +
\* the sum of weight[label][f] * value over the numeric feature ids, each
\* occurrence of an id counted (for a call without nocost).
C5_ScoreArc ==
    (score_out # None /\ ~score_out[4]) =>
        LET arc == score_out[1]
            label == score_out[2]
        IN score_out[3] =
             RatAdd(RatAdd(priors[label],
                           RatMul(cost_scaling,
                                  arc_information[arc][2][label_to_index[label]])),
                    WeightedFeatureSum(weights[label], arc_information[arc][1]))

\* a score with a non-zero prior, a non-zero scaled cost, a non-numeric id
\* occurring twice with non-zero weight and a numeric id of value other
\* than 1 with non-zero weight
C5_Witness ==
    /\ score_out # None /\ ~score_out[4]
    /\ LET f == arc_information[score_out[1]][1]
           w == weights[score_out[2]]
       IN /\ priors[score_out[2]] # Zero
          /\ RatMul(cost_scaling, arc_information[score_out[1]][2][1]) # Zero
          /\ f[1][1] = f[1][2] /\ w[f[1][1]] # Zero
          /\ f[3][1] # One /\ w[f[2][1]] # Zero

\* C6: RankingPerceptron.argmax on a non-empty substructure: is_consistent
\* is true if and only if the unconstrained best arc and the constrained
\* best arc are the same arc.
C6_RankingConsistentIffSame ==
    (Decoded /\ decoder = "RankingPerceptron" /\ Substructure # <<>>) =>
        (is_consistent(decoded) <=> Best = BestCons)

\* two consistent arcs tie for the highest score, and the decoder reports
\* is_consistent
C6_Witness ==
    /\ Decoded /\ decoder = "RankingPerceptron"
    /\ is_consistent(decoded)
    /\ \E a \in Range(Substructure) :
          a # Best /\ Consistent(a) /\ Score(a) = Score(Best)

\* C7 as stated: RankingPerceptronClosest.argmax on a non-empty
\* substructure: is_consistent is true if and only if the highest-scoring
\* arc is the same arc as the closest consistent arc.
C7_Original ==
    (Decoded /\ decoder = "RankingPerceptronClosest" /\ Substructure # <<>>) =>
        (is_consistent(decoded) <=> Best = BestCons)

\* C7 amended: is_consistent is true if and only if the highest-scoring arc
\* is flagged gold-consistent; it is true whenever that arc is the one
\* returned as best_cons_arcs, and the two may differ when it is true.
C7_ClosestConsistentIffFlag ==
    (Decoded /\ decoder = "RankingPerceptronClosest" /\ Substructure # <<>>) =>
        /\ is_consistent(decoded) <=> Consistent(Best)
        /\ Best = BestCons => is_consistent(decoded)

\* is_consistent is true although a consistent arc listed earlier, with a
\* lower score, is the constrained choice
C7_Witness ==
    /\ Decoded /\ decoder = "RankingPerceptronClosest"
    /\ is_consistent(decoded)
    /\ Best # BestCons
    /\ BestCons # None

\* C8 as stated: whenever candidates tie for the highest score, the ranking
\* decoders select the one with the smaller distance, in whatever order the
\* candidates are listed.
C8_Original ==
    (Decoded /\ Substructure # <<>>) =>
        \A a \in Range(Substructure) :
            Score(a) = Score(Best) => Distance(Best) <= Distance(a)

\* C8 amended: the same, for substructures that list their candidates
\* closest antecedent first (the order extract_substructures produces); in
\* any order, the selected arc is the first listed of those that tie.
C8_TieBreakClosestFirst ==
    (Decoded /\ Substructure # <<>>) =>
        /\ ClosestFirst(Substructure) =>
              \A a \in Range(Substructure) :
                  Score(a) = Score(Best) => Distance(Best) <= Distance(a)
        /\ \A a \in Range(Substructure) :
              Score(a) = Score(Best) => PositionOf(Best) <= PositionOf(a)

\* a closest-first substructure with a tie for the highest score
C8_Witness ==
    /\ Decoded
    /\ ClosestFirst(Substructure)
    /\ \E a \in Range(Substructure) : a # Best /\ Score(a) = Score(Best)

\* C9: find_best_arcs returns as best an arc of the list whose score is at
\* least that of every arc of the list, the first listed of those with that
\* score; for the closest-first list of three candidates whose scores are
\* x, x, x/2 it is the first one, (m3, m2).
C9_BestIsFirstMaximal ==
    (Decoded /\ decoder = "RankingPerceptron" /\ Substructure # <<>>) =>
        /\ Best \in Range(Substructure)
        /\ best_scores(decoded)[1] = Score(Best)
        /\ \A a \in Range(Substructure) :
              /\ RatGe(Score(Best), Score(a))
              /\ Score(a) = Score(Best) => PositionOf(Best) <= PositionOf(a)
        /\ ( /\ Len(Substructure) = 3
             /\ ClosestFirst(Substructure)
             /\ Score(Substructure[1]) = Score(Substructure[2])
             /\ Score(Substructure[1]) = RatMul(Rat(2), Score(Substructure[3]))
             /\ RatGt(Score(Substructure[3]), Zero) )
           => Best = Substructure[1]

\* the scenario: [(m3,m2), (m3,m1), (m3,m0)] with scores x, x, x/2
C9_Witness ==
    /\ Decoded /\ decoder = "RankingPerceptron"
    /\ Substructure = <<<<3, 2>>, <<3, 1>>, <<3, 0>>>>
    /\ Score(<<3, 2>>) = Score(<<3, 1>>)
    /\ Score(<<3, 2>>) = RatMul(Rat(2), Score(<<3, 0>>))
    /\ RatGt(Score(<<3, 0>>), Zero)
    /\ Best = <<3, 2>>

\* C10: best_cons of find_best_arcs is an arc flagged consistent whose score
\* is at least that of every consistent arc of the list, the first listed of
\* those; it is None exactly when the list has no consistent arc.
C10_BestConsIsFirstMaximalConsistent ==
    (Decoded /\ decoder = "RankingPerceptron") =>
        /\ BestCons = None <=>
              ~ \E a \in Range(Substructure) : Consistent(a)
        /\ BestCons # None =>
              /\ BestCons \in Range(Substructure)
              /\ Consistent(BestCons)
              /\ best_cons_scores(decoded)[1] = Score(BestCons)
              /\ \A a \in Range(Substructure) :
                    Consistent(a) =>
                       /\ RatGe(Score(BestCons), Score(a))
                       /\ Score(a) = Score(BestCons) =>
                             PositionOf(BestCons) <= PositionOf(a)

\* two consistent arcs tie and an inconsistent arc scores higher than both
C10_Witness ==
    /\ Decoded /\ decoder = "RankingPerceptron"
    /\ BestCons # None
    /\ \E a \in Range(Substructure) :
          a # BestCons /\ Consistent(a) /\ Score(a) = Score(BestCons)
    /\ \E b \in Range(Substructure) :
          ~Consistent(b) /\ RatGt(Score(b), Score(BestCons))

-----------------------------------------------------------------------------
\* C11: RankingPerceptron.argmax on a non-empty substructure (all scores
\* are finite) returns a best_arcs list of exactly one arc, which is an arc
\* of the substructure and not None; the substructure whose only candidate
\* is (m1, m0) decodes to (m1, m0) whatever the weights, priors and costs.
C11_BestArcIsCandidate ==
    (Decoded /\ decoder = "RankingPerceptron" /\ Substructure # <<>>) =>
        /\ Len(best_arcs(decoded)) = 1
        /\ Best # None
        /\ Best \in Range(Substructure)
        /\ Substructure = << <<1, 0>> >> => best_arcs(decoded) = << <<1, 0>> >>

\* the dummy-only substructure of m1, decoded with a score that is not
\* positive: an inconsistent decision without prior, weights and cost
C11_Witness ==
    /\ Decoded /\ decoder = "RankingPerceptron"
    /\ Substructure = << <<1, 0>> >>
    /\ ~Consistent(<<1, 0>>)
    /\ ~RatGt(Score(<<1, 0>>), Zero)
    /\ Best = <<1, 0>>

-----------------------------------------------------------------------------
\* the labels of a list of decoded arcs: the decoder's label list, or "+"
\* for every arc when the decoder returns no labels
LabelsOf(arcs, labels) == IF labels = <<>> THEN Plus(Len(arcs)) ELSE labels

\* number of arcs of the list that carry label l
LabelCount(arcs, labels, l) ==
    Cardinality({k \in 1..Len(arcs) : LabelsOf(arcs, labels)[k] = l})

\* C12: a mistake update at counter value c leaves every prior at its old
\* value plus 1 for each constrained-best arc carrying the label and minus 1
\* for each unconstrained-best arc carrying it, and every cached prior at
\* its old value plus c times that; also when the decoder returns empty
\* label lists, where every arc carries "+".
C12_PriorsUpdated ==
    [][MistakeUpdated =>
         \A l \in Range(get_labels) :
            LET delta == LabelCount(best_cons_arcs(Seven(decoded')),
                                    best_cons_labels(Seven(decoded')), l)
                         - LabelCount(best_arcs(Seven(decoded')),
                                      best_labels(Seven(decoded')), l)
            IN /\ priors'[l] = RatAdd(priors[l], Rat(delta))
               /\ cached_priors'[l] =
                     RatAdd(cached_priors[l], Rat(counter * delta))]_vars

\* fit has carried out an update at a counter value of at least 1 for a
\* decoder result without labels
C12_Witness ==
    /\ impl = "fit"
    /\ decoded # None /\ ~is_consistent(Seven(decoded)) /\ error = "none"
    /\ best_labels(Seven(decoded)) = <<>> /\ best_cons_labels(Seven(decoded)) = <<>>
    /\ counter >= 2
    /\ \E i \in Indices : cached_weights["+"][i] # Zero

-----------------------------------------------------------------------------
\* a number that is neither infinite nor NaN
Finite(x) == x[2] # 0

\* every prior and weight of the perceptron and of the model handed over
ModelFinite ==
    /\ \A l \in DOMAIN priors :
          Finite(priors[l]) /\ \A i \in Indices : Finite(weights[l][i])
    /\ model # None =>
          \A l \in DOMAIN model[1] :
             Finite(model[1][l]) /\ \A i \in Indices : Finite(model[2][l][i])

\* the averaging step is due: fit has run its epochs, or get_model is
\* called between two calls of fit_one_epoch
AveragingDue ==
    \/ /\ impl = "fit" /\ pc = "fit" /\ epoch = n_iter
       /\ epoch = 0 \/ pos = Len(indices)
    \/ impl = "fit_one_epoch" /\ pc = "idle" /\ epoch' = epoch

\* C13: when the averaging step meets a counter of zero (zero epochs, or no
\* substructures), the step ends in an error reported to the caller and
\* changes neither the perceptron's priors and weights nor the model handed
\* over; no averaged model exists for a zero counter, and no prior or
\* weight is ever infinite or NaN.
C13_ZeroCounterReported ==
    /\ [][(AveragingDue /\ counter = 0) =>
             /\ error' = "ZeroDivisionError"
             /\ pc' = "error"
             /\ UNCHANGED <<priors, weights, model>>]_vars
    /\ [](ModelFinite /\ ((pc = "done" \/ model # None) => counter >= 1))

\* fit has run one epoch or more over an empty list of substructures and
\* stopped with the error
C13_Witness ==
    /\ impl = "fit"
    /\ substructures = <<>>
    /\ epoch >= 1
    /\ counter = 0
    /\ pc = "error" /\ error = "ZeroDivisionError"
    /\ priors = ZeroPriors /\ weights = ZeroWeights

-----------------------------------------------------------------------------
\* s is an initial segment of t
IsPrefix(s, t) == Len(s) <= Len(t) /\ \A k \in 1..Len(s) : s[k] = t[k]

\* C14: a run of fit on a second perceptron constructed with the seed,
\* epoch count and cost_scaling of the first and with initial weights equal
\* to those the first started from, on the same substructures and arc
\* information, visits the instances in the order the first run visited
\* them, and ends as the first run ended, with the same priors and the same
\* weights, whatever state the first run left the generator in.
C14_SameOrderSameModel ==
    (first_run # None /\ initial_weights = first_run.initial_weights) =>
        /\ IsPrefix(order, first_run.order)
        /\ pc \in {"done", "error"} =>
              /\ order = first_run.order
              /\ priors = first_run.priors
              /\ weights = first_run.weights
              /\ error = first_run.error

\* the second run, started from non-zero weights equal to those of the
\* first, has ended after two epochs over two instances, visited in a
\* different order in each epoch, with a model that is not the one it
\* started from
C14_Witness ==
    /\ first_run # None
    /\ initial_weights = first_run.initial_weights
    /\ initial_weights = WarmWeights
    /\ pc = "done"
    /\ Len(order) = 4
    /\ order[1] # order[3]
    /\ weights # initial_weights

-----------------------------------------------------------------------------
(* Vocabulary of the clustering claims.                                    *)

\* the decisions of a prediction, in the order all_ante goes through them
RECURSIVE Flatten(_)
Flatten(subs) == IF subs = <<>> THEN <<>> ELSE subs[1] \o Flatten(Tail(subs))

Pairs == Flatten(substructures)

\* all_ante has been called
Clustered == impl = "cluster" /\ clusters # None

\* the k-th decision links its anaphor to a mention other than the dummy
IsLink(k) == Pairs[k] # None /\ ~is_dummy(Pairs[k][2])

\* the arcs are given in document mention order
InMentionOrder ==
    \A j, k \in 1..Len(Pairs) :
        (Pairs[j] # None /\ Pairs[k] # None /\ j < k) => Pairs[j][1] <= Pairs[k][1]

\* every antecedent precedes its anaphor
AntecedentsPrecede ==
    \A k \in 1..Len(Pairs) : Pairs[k] # None /\ Pairs[k][2] < Pairs[k][1]

\* at most one non-dummy arc per anaphor
OneLinkPerAnaphor ==
    \A j, k \in 1..Len(Pairs) :
        (IsLink(j) /\ IsLink(k) /\ j # k) => Pairs[j][1] # Pairs[k][1]

\* a and b are the two ends of a non-dummy arc
Linked(a, b) ==
    \E k \in 1..Len(Pairs) :
        IsLink(k) /\ {Pairs[k][1], Pairs[k][2]} = {a, b}

\* the mentions a chain of non-dummy arcs connects with those of S
RECURSIVE ChainFrom(_)
ChainFrom(S) ==
    LET T == S \cup {m \in 1..ClusterMentions : \E x \in S : Linked(x, m)}
    IN IF T = S THEN S ELSE ChainFrom(T)

\* C15: for arcs given in document mention order, every antecedent
\* preceding its anaphor and at most one non-dummy arc per anaphor,
\* all_ante gives two mentions the same entity id if and only if a chain
\* of non-dummy arcs connects them, and a mention has an entity id if and
\* only if it occurs in a non-dummy arc.
C15_ClustersAreChains ==
    (Clustered /\ InMentionOrder /\ AntecedentsPrecede /\ OneLinkPerAnaphor) =>
        LET ids == clusters.mention_entity_mapping
        IN /\ clusters.err = "none"
           /\ \A a \in 0..ClusterMentions :
                 a \in DOMAIN ids <=> \E b \in 1..ClusterMentions : Linked(a, b)
           /\ \A a, b \in 1..ClusterMentions :
                 a # b =>
                    ((a \in DOMAIN ids /\ b \in DOMAIN ids /\ ids[a] = ids[b])
                       <=> b \in ChainFrom({a}))

\* a chain over three mentions, after a decision for the dummy
C15_Witness ==
    /\ Clustered
    /\ InMentionOrder /\ AntecedentsPrecede /\ OneLinkPerAnaphor
    /\ Len(Pairs) = 3
    /\ is_dummy(Pairs[1][2])
    /\ LET ids == clusters.mention_entity_mapping
       IN Cardinality(DOMAIN ids) = 3 /\ \A a \in DOMAIN ids : ids[a] = 1

-----------------------------------------------------------------------------
\* the model m has the configured labels and arrays of the fixed length
Fits(m) ==
    /\ DOMAIN m[1] = Range(get_labels)
    /\ DOMAIN m[2] = Range(get_labels)
    /\ \A l \in DOMAIN m[2] : DOMAIN m[2][l] = Indices

\* a step that is a call of load_model
Loading == pc = "predict" /\ pc' = "loaded"

\* C17 as stated: loading a model whose label set or array length does not
\* match the configured label set and the fixed array size fails at load
\* time and leaves the perceptron's previous priors and weights unchanged.
C17_LoadValidates ==
    [][(Loading /\ ~Fits(model')) =>
          /\ error' # "none"
          /\ priors' = priors
          /\ weights' = weights]_vars

-----------------------------------------------------------------------------
\* C18: score_arc with nocost = True returns prior[label] + the weighted
\* feature sum, whatever the arc's cost vector and cost_scaling are; that
\* is the score without nocost whenever the arc's cost for the label is 0.
C18_NoCost ==
    (score_out # None /\ score_out[4]) =>
        LET arc == score_out[1]
            label == score_out[2]
        IN /\ score_out[3] =
                RatAdd(priors[label],
                       WeightedFeatureSum(weights[label], arc_information[arc][1]))
           /\ arc_information[arc][2][label_to_index[label]] = Zero =>
                 score_out[3] = score_arc(arc, label, FALSE)

\* a score without cost of an arc whose scaled cost is not zero, with a
\* prior and a feature weight that are not zero
C18_Witness ==
    /\ score_out # None /\ score_out[4]
    /\ RatMul(cost_scaling, arc_information[score_out[1]][2][1]) # Zero
    /\ priors[score_out[2]] # Zero
    /\ score_out[3] # priors[score_out[2]]

-----------------------------------------------------------------------------
\* the cost of predicting an arc with the k-th label
Cost(arc, k) == arc_information[arc][2][k]

\* C19: for every label, the cost of an arc is 0 if the decision is
\* gold-consistent, 2 if it is inconsistent and the antecedent is the dummy
\* mention, 1 if it is inconsistent otherwise; so no cost is negative and
\* cost(inconsistent, dummy) >= cost(inconsistent, non-dummy)
\* >= cost(consistent).
C19_CostTable ==
    impl = "decode" =>
        \A k \in 1..Len(get_labels) :
           /\ \A arc \in DOMAIN arc_information :
                 /\ Consistent(arc) => Cost(arc, k) = Rat(0)
                 /\ (~Consistent(arc) /\ is_dummy(arc[2])) => Cost(arc, k) = Rat(2)
                 /\ (~Consistent(arc) /\ ~is_dummy(arc[2])) => Cost(arc, k) = Rat(1)
                 /\ RatGe(Cost(arc, k), Zero)
           /\ \A a, b, c \in DOMAIN arc_information :
                 ( /\ ~Consistent(a) /\ is_dummy(a[2])
                   /\ ~Consistent(b) /\ ~is_dummy(b[2])
                   /\ Consistent(c) )
                 => (RatGe(Cost(a, k), Cost(b, k)) /\ RatGe(Cost(b, k), Cost(c, k)))

\* arc information with an inconsistent decision for the dummy, which has
\* been scored with its cost, an inconsistent one for another mention and a
\* consistent one
C19_Witness ==
    /\ impl = "decode"
    /\ score_out # None /\ ~score_out[4]
    /\ \E a, b, c \in DOMAIN arc_information :
          /\ score_out[1] = a
          /\ ~Consistent(a) /\ is_dummy(a[2]) /\ Cost(a, 1) = Rat(2)
          /\ ~Consistent(b) /\ ~is_dummy(b[2]) /\ Cost(b, 1) = Rat(1)
          /\ Consistent(c) /\ Cost(c, 1) = Rat(0)

-----------------------------------------------------------------------------
\* C20: a training instance for which the decoder reports is_consistent =
\* true leaves every live weight, cached weight, live prior and cached
\* prior as it was; the counter grows by one.
C20_ConsistentInstanceOnlyCounts ==
    [][(InstanceProcessed /\ is_consistent(Seven(decoded'))) =>
          /\ UNCHANGED <<priors, weights, cached_priors, cached_weights>>
          /\ counter' = counter + 1]_vars

\* a consistent instance has just been processed, not the first one, whose
\* highest-scoring arc is another arc than the constrained one, by a model
\* whose weights are not zero: an update would have changed the model
C20_Witness ==
    /\ impl = "fit"
    /\ pc = "fit"
    /\ pos >= 1
    /\ counter >= 2
    /\ decoded # None /\ is_consistent(decoded) /\ error = "none"
    /\ best_arcs(decoded) # best_cons_arcs(decoded)
    /\ weights # ZeroWeights

-----------------------------------------------------------------------------
\* the training loop is about to decode an instance
AtInstance == pc \in {"fit", "train"} /\ epoch >= 1 /\ pos < Len(indices)

\* the substructure of that instance
Current == substructures[indices[pos + 1] + 1]

\* a substructure none of whose arcs is flagged gold-consistent
NoneConsistent(s) == \A k \in 1..Len(s) : ~Consistent(s[k])

\* the error that ends training at a substructure without a consistent arc:
\* in fit the KeyError of the lookup of the missing consistent arc; in
\* fit_one_epoch the error of the decoding itself (ValueError of the
\* unpacking for a decoder of seven values, else TypeError of _get_rescored)
NoConsistentArcError ==
    IF impl = "fit" THEN "KeyError"
    ELSE IF decoder \in Decoders THEN "ValueError"
    ELSE "TypeError"

\* C21: when training reaches a non-empty substructure in which no arc is
\* flagged gold-consistent, the step ends training with an error and
\* changes no live or cached weight or prior, nor the counter; and no step
\* follows an error: no later instance, no averaging, no model.
C21_NoConsistentArcStops ==
    [][/\ pc # "error"
       /\ (AtInstance /\ Current # <<>> /\ NoneConsistent(Current)) =>
              /\ pc' = "error"
              /\ error' = NoConsistentArcError
              /\ UNCHANGED <<priors, weights, cached_priors, cached_weights,
                             counter, pos, epoch, model>>]_vars

\* training has failed on a non-empty substructure without a consistent arc
\* after an earlier instance had changed the weights
C21_Witness ==
    /\ pc = "error" /\ error = "KeyError"
    /\ pos < Len(indices)
    /\ Current # <<>> /\ NoneConsistent(Current)
    /\ decoded # None /\ best_arcs(Seven(decoded))[1] \in Range(Current)
    /\ best_cons_arcs(Seven(decoded))[1] = None
    /\ counter >= 1
    /\ weights # ZeroWeights

-----------------------------------------------------------------------------
\* how often instance index i occurs in a list of indices
Visits(list, i) == Cardinality({k \in 1..Len(list) : list[k] = i})

\* the instances decoded in epoch e of fit, in the order of decoding
EpochOrder(e) ==
    SubSeq(order, (e - 1) * Len(substructures) + 1,
           IF e * Len(substructures) <= Len(order)
           THEN e * Len(substructures) ELSE Len(order))

\* C22: in fit the shuffled index list is a permutation of 0 .. N-1 in
\* every epoch, every completed epoch has decoded each instance exactly once
\* (and the running one none twice), and after n_iter epochs over N
\* substructures the counter used for averaging is n_iter * N.
C22_EveryInstanceOncePerEpoch ==
    impl = "fit" =>
       /\ \A i \in 0..(Len(substructures) - 1) : Visits(indices, i) = 1
       /\ Len(indices) = Len(substructures)
       /\ \A e \in 1..epoch : \A i \in 0..(Len(substructures) - 1) :
              IF e < epoch \/ pos = Len(indices)
              THEN Visits(EpochOrder(e), i) = 1
              ELSE Visits(EpochOrder(e), i) <= 1
       /\ pc = "done" =>
              /\ epoch = n_iter
              /\ counter = n_iter * Len(substructures)
              /\ Len(order) = counter

\* fit has completed two epochs over two substructures, the second one in
\* another order than the first
C22_Witness ==
    /\ impl = "fit" /\ pc = "done"
    /\ n_iter = 2 /\ Len(substructures) = 2
    /\ counter = 4
    /\ EpochOrder(1) # EpochOrder(2)

-----------------------------------------------------------------------------
\* b is a consistent arc of the substructure and no consistent arc of it has
\* a nearer antecedent
NearestConsistent(b) ==
    /\ b \in Range(Substructure) /\ Consistent(b)
    /\ \A a \in Range(Substructure) :
          Consistent(a) => Distance(b) <= Distance(a)

\* the first consistent arc in list order is the arc returned, and None is
\* returned when no arc is consistent
FirstConsistentReturned ==
    /\ NoneConsistent(Substructure) => BestCons = None
    /\ \A k \in 1..Len(Substructure) :
          (Consistent(Substructure[k])
             /\ \A j \in 1..(k - 1) : ~Consistent(Substructure[j]))
          => BestCons = Substructure[k]

\* C23 as stated: RankingPerceptronClosest.argmax returns as best_cons_arcs
\* the first gold-consistent arc in list order, whatever the scores, and
\* None when no arc is consistent; the arc returned is the gold-consistent
\* antecedent nearest to the anaphor exactly when the substructure lists
\* its candidates closest-first.
C23_Original ==
    (Decoded /\ decoder = "RankingPerceptronClosest") =>
        /\ FirstConsistentReturned
        /\ ~NoneConsistent(Substructure) =>
              (NearestConsistent(BestCons) <=> ClosestFirst(Substructure))

\* C23: RankingPerceptronClosest.argmax returns as best_cons_arcs the
\* first arc of the substructure, in list order, that is flagged
\* gold-consistent, whatever the scores, and None when no arc is flagged;
\* the arc returned is the nearest consistent antecedent whenever the
\* substructure lists its candidates closest antecedent first, and in any
\* order of the list exactly when no consistent arc listed after it has a
\* nearer antecedent.
C23_ClosestIsFirstConsistent ==
    (Decoded /\ decoder = "RankingPerceptronClosest") =>
        /\ FirstConsistentReturned
        /\ ~NoneConsistent(Substructure) =>
              /\ ClosestFirst(Substructure) => NearestConsistent(BestCons)
              /\ NearestConsistent(BestCons) <=>
                    \A a \in Range(Substructure) :
                        (Consistent(a) /\ PositionOf(BestCons) < PositionOf(a))
                        => Distance(BestCons) <= Distance(a)

\* a substructure not listed closest-first: the arc returned is the first
\* consistent one, although a consistent arc listed later has the nearer
\* antecedent and the higher score
C23_Witness ==
    /\ Decoded /\ decoder = "RankingPerceptronClosest"
    /\ ~ClosestFirst(Substructure)
    /\ BestCons # None
    /\ \E a \in Range(Substructure) :
          /\ Consistent(a)
          /\ Distance(a) < Distance(BestCons)
          /\ RatGt(Score(a), Score(BestCons))
          /\ PositionOf(BestCons) < PositionOf(a)

-----------------------------------------------------------------------------
\* the candidates are listed farthest antecedent first
FarthestFirst(s) ==
    \A j, k \in 1..Len(s) : j < k => Distance(s[j]) > Distance(s[k])

\* C24 as stated: in every substructure returned by extract_substructures
\* the candidate arcs are strictly ordered by anaphor-antecedent distance,
\* the distance decreasing along the list.
C24_Original ==
    substructures = extract_substructures =>
        \A k \in 1..Len(substructures) : FarthestFirst(substructures[k])

\* C24 amended: in every substructure returned by extract_substructures the
\* candidate arcs are strictly ordered by anaphor-antecedent distance, the
\* distance increasing along the list: the closest antecedent comes first
\* and the dummy mention last.
C24_DistanceIncreasing ==
    substructures = extract_substructures =>
        \A k \in 1..Len(substructures) :
            /\ ClosestFirst(substructures[k])
            /\ substructures[k] # <<>> =>
                  /\ Distance(substructures[k][1]) = 1
                  /\ is_dummy(substructures[k][Len(substructures[k])][2])

\* a substructure with several candidates, as extract_substructures
\* returned it, has been decoded
C24_Witness ==
    /\ substructures = extract_substructures
    /\ decoded # None
    /\ \E k \in 1..Len(substructures) :
          /\ Len(substructures[k]) >= 2
          /\ best_arcs(Seven(decoded))[1] \in Range(substructures[k])
          /\ Distance(substructures[k][1]) < Distance(substructures[k][2])

\* C25: every substructure returned by extract_substructures for system
\* mentions that start with the dummy mention contains the arc from its
\* anaphor to the dummy mention, so none of them is empty.
C25_NoEmptySubstructure ==
    (substructures = extract_substructures /\ is_dummy(system_mentions[1])) =>
        \A k \in 1..Len(substructures) :
            /\ substructures[k] # <<>>
            /\ \E j \in 1..Len(substructures[k]) :
                  /\ is_dummy(substructures[k][j][2])
                  /\ substructures[k][j][1] = system_mentions[k]

-----------------------------------------------------------------------------
\* mention r has no antecedent but, at most, the dummy mention
ChainStart(r) == \A k \in 1..Len(Pairs) : IsLink(k) => Pairs[k][1] # r

\* C26: for arcs given in document mention order, every antecedent
\* preceding its anaphor and at most one non-dummy arc per anaphor, the
\* entity id of every mention of a chain is the position, in the
\* document's system mentions, of the first mention of the chain (the one
\* without a non-dummy antecedent), and mentions of distinct chains have
\* distinct ids.
C26_IdIsIndexOfFirstMention ==
    (Clustered /\ InMentionOrder /\ AntecedentsPrecede /\ OneLinkPerAnaphor) =>
        LET ids == clusters.mention_entity_mapping
        IN \A a \in DOMAIN ids :
              LET chain == ChainFrom({a})
                  first == CHOOSE r \in chain : ChainStart(r)
              IN /\ \E r \in chain : ChainStart(r)
                 /\ \A r \in chain : first <= r
                 /\ document_system_mentions[ids[a] + 1] = first
                 /\ \A b \in DOMAIN ids \ chain : ids[a] # ids[b]

\* two chains, the second one starting at the third mention
C26_Witness ==
    /\ Clustered
    /\ InMentionOrder /\ AntecedentsPrecede /\ OneLinkPerAnaphor
    /\ LET ids == clusters.mention_entity_mapping
       IN /\ DOMAIN ids = 1..4
          /\ ids[1] = 1 /\ ids[2] = 1 /\ ids[3] = 3 /\ ids[4] = 3

-----------------------------------------------------------------------------
\* the entity ids after the first n decisions of the pass
IdsAfter(n) ==
    all_ante_substructure([mention_entity_mapping |-> <<>>,
                           antecedent_mapping |-> <<>>, err |-> "none"],
                          SubSeq(Pairs, 1, n)).mention_entity_mapping

\* no step of the pass changes an id a mention already has
IdsKept ==
    \A n \in 0..Len(Pairs) : \A m \in n..Len(Pairs) :
        \A x \in DOMAIN IdsAfter(n) :
            x \in DOMAIN IdsAfter(m) /\ IdsAfter(m)[x] = IdsAfter(n)[x]

\* C27 as stated: within one pass of all_ante over any list of decoded
\* arcs, once a mention has an entity id no later step of the pass changes
\* it.
C27_Original == Clustered => IdsKept

\* C27 amended: the same for arcs given in document mention order with
\* every antecedent preceding its anaphor and at most one non-dummy arc
\* per anaphor, the ids kept being those all_ante returns; for other lists
\* an anaphor that already has an id takes over the id of its antecedent.
C27_IdsKeptInMentionOrder ==
    (Clustered /\ InMentionOrder /\ AntecedentsPrecede /\ OneLinkPerAnaphor) =>
        /\ IdsKept
        /\ clusters.mention_entity_mapping = IdsAfter(Len(Pairs))

\* a chain over three mentions built in three steps: the first two have
\* their ids before the last step
C27_Witness ==
    /\ Clustered
    /\ InMentionOrder /\ AntecedentsPrecede /\ OneLinkPerAnaphor
    /\ Len(Pairs) = 3
    /\ DOMAIN IdsAfter(1) = {1, 2}
    /\ DOMAIN IdsAfter(2) = {1, 2, 3}
    /\ DOMAIN clusters.mention_entity_mapping = {1, 2, 3, 4}
    /\ \A x \in 1..4 : clusters.mention_entity_mapping[x] = 1

-----------------------------------------------------------------------------
\* C29: in the training of a single-label ("+") ranking model the live
\* prior and the cached prior of "+" are 0 after every processed instance
\* (an update adds 1 and c for the constrained-best arc and takes them
\* away for the unconstrained-best one, or touches no prior), and the prior
\* of the averaged model is 0.
C29_PriorStaysZero ==
    get_labels = <<"+">> =>
        /\ priors["+"] = Zero
        /\ cached_priors["+"] = Zero
        /\ model # None => model[1]["+"] = Zero
        /\ \A k \in 1..Len(returned) : returned[k][2][1]["+"] = Zero

\* an averaged model has been handed over after updates at a counter that
\* was not zero
C29_Witness ==
    /\ impl = "fit_one_epoch"
    /\ counter >= 2
    /\ weights # ZeroWeights /\ cached_weights # ZeroWeights
    /\ model # None /\ model[1]["+"] = Zero /\ model[2] # ZeroWeights
    /\ priors["+"] = Zero /\ cached_priors["+"] = Zero

-----------------------------------------------------------------------------
\* a step of the caller between two fit_one_epoch calls that starts no
\* epoch: a get_model call
GetModelCalled == impl = "fit_one_epoch" /\ pc = "idle" /\ epoch' = epoch

\* C30: get_model of the fit_one_epoch version leaves the live weights and
\* priors, the cached weights and priors and the counter (and the training
\* position) as they are and, when it returns, the perceptron ready for the
\* next fit_one_epoch call; get_model calls with no training between them
\* return equal models.
C30_GetModelOnCopies ==
    /\ [][GetModelCalled =>
             /\ UNCHANGED <<priors, weights, cached_priors, cached_weights,
                            counter, indices, epoch, pos, substructures,
                            arc_information>>
             /\ counter # 0 => pc' = "idle" /\ error' = error]_vars
    /\ [](\A j, k \in 1..Len(returned) :
             returned[j][1] = returned[k][1] => returned[j][2] = returned[k][2])

\* get_model has been called twice after the same epoch, and once before
\* further training that has changed the weights: the models of the two
\* calls are those of the live model, which is not its own average
C30_Witness ==
    /\ impl = "fit_one_epoch" /\ pc = "idle"
    /\ Len(returned) = 2
    /\ returned[1][1] = returned[2][1]
    /\ returned[1][2] = returned[2][2]
    /\ returned[2][2][2] # weights

-----------------------------------------------------------------------------
\* the pairs with a numeric value, in the order the features returned them
NumericPairs == SelectSeq(features_and_vals, is_numeric)

\* the pairs with a value that is neither None nor numeric, in that order
NonNumericPairs == SelectSeq(features_and_vals, is_non_numeric)

\* C28: featurize succeeds for every signed hash value, negative ones
\* included, and every feature index it returns lies in 0 .. 2^IndexBits - 1
\* (the positions of a weight array of that length), being the hash
\* modulo 2^IndexBits; the numeric ids and the numeric values have equal
\* length, the k-th of each belonging to the k-th numeric feature; a
\* feature without value (None) contributes nothing.
C28_FeatureIndicesInRange ==
    featurized # None =>
        /\ featurized.err = "none"
        /\ Len(featurized.all_nonnumeric_feats) = Len(NonNumericPairs)
        /\ \A k \in 1..Len(featurized.all_nonnumeric_feats) :
              /\ featurized.all_nonnumeric_feats[k] \in 0..(Pow2(IndexBits) - 1)
              /\ featurized.all_nonnumeric_feats[k] =
                    mmh3_hash[non_numeric_feat(NonNumericPairs[k])]
                       % Pow2(IndexBits)
        /\ Len(featurized.all_numeric_feats) = Len(NumericPairs)
        /\ Len(featurized.all_numeric_vals) = Len(featurized.all_numeric_feats)
        /\ \A k \in 1..Len(featurized.all_numeric_feats) :
              /\ featurized.all_numeric_feats[k] \in 0..(Pow2(IndexBits) - 1)
              /\ featurized.all_numeric_feats[k] =
                    mmh3_hash[numeric_feat(NumericPairs[k])] % Pow2(IndexBits)
              /\ featurized.all_numeric_vals[k] = Rat(NumericPairs[k][2][2])

\* two numeric features with different values, the hash of the first one
\* negative and that of the second one beyond the index range
C28_Witness ==
    /\ featurized # None /\ featurized.err = "none"
    /\ Len(features_and_vals) = 2
    /\ Len(featurized.all_numeric_feats) = 2
    /\ mmh3_hash[numeric_feat(features_and_vals[1])] < 0
    /\ mmh3_hash[numeric_feat(features_and_vals[2])] >= Pow2(IndexBits)
    /\ featurized.all_numeric_feats[1] # featurized.all_numeric_feats[2]
    /\ featurized.all_numeric_vals[1] # featurized.all_numeric_vals[2]

=============================================================================
